---- MODULE Spec2Model ----
(***************************************************************************)
(* State-machine model of the OpenVPN 3 client library sources:            *)
(*   - MbedTLSContext::SSL, the TLS adapter (mbedtls sslctx)               *)
(*   - OpenVPNClient / ClientState, the client API (client/ovpncli.hpp)    *)
(* Each subsystem has its own specification (SpecSSL, SpecClient); the     *)
(* variables of the other subsystem stay at their initial value.           *)
(***************************************************************************)
EXTENDS Integers, Sequences, FiniteSets, TLC

(***************************************************************************)
(* Bounds of the model (not program constants).                            *)
(***************************************************************************)
\* most buffers the model lets pile up in the outbound ciphertext queue
MaxCtOut == 2
\* largest output size requested from export_keying_material
MaxEkmSize == 2
\* most events that are queued on the client event queue in one run
MaxEvents == 3
\* most calls of OpenVPNClient::stop() in one run
MaxStopCalls == 2
\* most calls of OpenVPNClient::connect() on one client object
MaxConnect == 2
\* most calls of OpenVPNClient::session_token() in one run
MaxTokenCalls == 2
\* most events added to the event queue after the client object is gone
MaxDropped == 1
\* most calls of OpenVPNClient::eval_config() on one client object
MaxEval == 2
\* most calls of OpenVPNClient::provide_creds() on one client object
MaxProvide == 2
\* most calls of connection_info() and of the stats API in one run
MaxObserve == 2
\* most errors the session records in MySessionStats in one run
MaxErrorCalls == 2
\* most bytes the session counts as received in one run
MaxStat == 1
\* how far beyond N_ERRORS the arguments of Error::name go
MaxBeyond == 2
\* width of the replay window of an inbound key
ReplayWidth == 3
\* largest packet id a peer sends under one key
MaxPktId == 5
\* size of the receive window of the reliable layer
RelWindow == 2
\* largest reliable packet id a peer sends
MaxRelId == 3
\* most control records that arrive in one run
MaxRecords == 4
\* largest key id in use (the wire format allows 0..7)
MaxKeyId == 2
\* most error events pushed onto the error bus in one run
MaxBusEvents == 2
\* most calls of pause(), resume(), reconnect() and post_cc_msg() in one run
MaxCalls == 2
\* most calls of the cross-thread API methods, all taken together, in one run
MaxForeign == 2
\* most clock_tick() callbacks in one run
MaxTicks == 2
\* most calls of OpenVPNClient::sign() in one run
MaxSign == 2
\* deepest certificate of a chain handed to the verification callback
MaxDepth == 2
\* most calls of HTTPCore::start_request() in one run
MaxRequests == 2
\* most host callbacks of the HTTP client the content handlers add to the trace
MaxHttpTrace == 4
\* longest arbitrary byte stream fed to the chunked decoder
MaxStream == 4
\* most chunks before the last-chunk line of a well-formed chunked body
MaxChunks == 1
\* longest buffer handed to one ChunkedHelper::receive()
MaxPiece == 3

(***************************************************************************)
(* Program constants.                                                      *)
(***************************************************************************)
\* MbedTLSContext::MAX_CIPHERTEXT_IN
MAX_CIPHERTEXT_IN == 64
\* Error::N_ERRORS
N_ERRORS == 83
\* Error::EPKI_CERT_ERROR
EPKI_CERT_ERROR == 35
\* Error::EPKI_SIGN_ERROR
EPKI_SIGN_ERROR == 36

VARIABLES
    \* ---- MbedTLSContext::SSL ----
    ssl,          \* "live" while the mbedtls_ssl_context exists, "null" after erase()
    mode,         \* Config::mode: "client" or "server"
    hs,           \* TLS engine handshake state (ssl->state)
    bytes_avail,  \* engine holds decrypted cleartext not yet read
    ct_in,        \* MemQStream ct_in: number of queued buffers
    ct_out,       \* MemQStream ct_out: number of queued buffers
    overflow,     \* SSL::overflow
    ssl_op,       \* the SSL method that ran last
    ssl_status,   \* status the TLS engine returned to that method ("none" if not called)
    ssl_ret,      \* what that method returned or threw
    ekm_size,     \* size asked of the last export_keying_material
    ekm_written,  \* bytes export_keying_material wrote into the caller's buffer
    sslconf,      \* "live" while the mbedtls_ssl_config exists and SSL::sslconf points to it
    heap,         \* the objects the SSL object has allocated and nobody has freed
    ctor_pc,      \* where the constructor SSL::SSL stands
    ctor_ret,     \* "ok" or the message of the exception that left the constructor
    \* ---- OpenVPNClient / ClientState ----
    pc,                   \* where the thread that called connect() stands
    n_connect,            \* calls of connect() so far
    status,               \* do_connect's Status, the value connect() returns
    session_started,      \* do_connect's local session_started
    attach_called,        \* ClientState::attach_called
    foreign_thread_ready, \* ClientState::foreign_thread_ready
    session,              \* ClientState::session: "null", "created", "started", "stopped"
    graceful_stop_calls,  \* calls of session->graceful_stop()
    session_stop_calls,   \* calls of session->stop() by connect_session_stop
    dont_restart,         \* session->dont_restart() was called
    stop_called,          \* async_stop_local_: Stop::stop() has run
    stop_scope_local,     \* ClientState::stop_scope_local is registered
    io_queue,             \* handlers posted to the io_context, not yet run
    events,               \* ClientState::events: "null", "attached" (parent set), "detached"
    added,                \* events passed to add_event while the parent was set
    dropped,              \* events passed to add_event after detach_from_parent
    host_calls,           \* the host callbacks made, in order
    last_connected,       \* MyClientEvents::last_connected
    clock_tick,           \* ClientState::clock_tick: the state of its timer ("none": no MyClockTick)
    errors,               \* MySessionStats::errors
    creds,                \* ClientState::creds: the ClientCreds object, if defined
    tok,                  \* the caller's SessionToken handed to session_token()
    api_op,               \* the API method a host thread called last
    api_ret,              \* what it returned
    stop_log,             \* for each stop() call, where connect() stood
    n_token_calls,        \* calls of session_token() so far
    clockTickMS,          \* ClientState::clientconf.clockTickMS, as the host configured it
    posted,               \* the thread_safe_ calls that reached the session, in order
    n_calls,              \* calls of pause(), resume(), reconnect(), post_cc_msg() so far
    sign_req,             \* the ExternalPKISignRequest as the host's callback left it
    sig,                  \* the caller's signature buffer handed to sign()
    sign_ret,             \* what the last sign() returned ("none" before the first)
    n_sign,               \* calls of sign() so far
    \* ---- MbedTLSContext: certificate verification callback ----
    vfy_arg,              \* the call: depth, the flags word on entry, what the leaf checks find
    vfy_flags,            \* the caller's *flags word
    vfy_ret,              \* "idle": no call; "none": called, not yet run; then what it returned
    \* ---- WS::Client::HTTPCore ----
    http,                 \* the HTTPCore object: halt, ready, alive, link, content_info.keepalive,
                          \* the phase of the request and the trace of start_request and host callbacks
    http_pending,         \* the asynchronous operations whose handlers asio has yet to call
    http_op,              \* the handler that ran last, whether halt was set when it was entered,
                          \* and the error code if it went straight to error_handler
    n_requests,           \* calls of start_request() so far
    \* ---- WS::ChunkedHelper ----
    chunked,              \* the ChunkedHelper object: state and size
    ch_body,              \* the chunked body the peer sends, if the stream is a well-formed one
    ch_in,                \* the bytes of the stream that have not arrived yet
    ch_fed,               \* the bytes handed to receive() so far, in order
    ch_consumed,          \* how many of them receive() has taken out of its buffers
    ch_content,           \* the bytes passed to chunked_content_in so far, in order
    ch_ret,               \* what the last receive() returned ("none" before the first)
    \* ---- OpenVPNClient: configuration and credentials ----
    eval,                 \* ClientState::eval, the stored EvalConfig
    options,              \* ClientState::options: the profile content it was parsed from
    clientconf,           \* ClientState::clientconf, the extra settings
    n_eval,               \* calls of eval_config() so far
    n_provide,            \* calls of provide_creds() so far
    api_arg,              \* the argument of the last eval_config / provide_creds
    api_status,           \* the EvalConfig / Status that call returned
    \* ---- OpenVPNClient: statistics and connection info ----
    stat_values,          \* SessionStats::stats_, the traffic counters
    n_error_calls,        \* calls of MySessionStats::error() by the session so far
    last_err,             \* the code passed to the last of them
    n_obs,                \* calls of connection_info() and the stats API so far
    obs_op,               \* which of them was called last
    obs_arg,              \* the index passed to it (0 if it takes none)
    obs_ci,               \* the ConnectionInfo the last connection_info() returned
    obs_name,             \* the name the last stats_name() returned
    obs_value,            \* the value the last stats_value() returned
    obs_bundle,           \* the vector the last stats_bundle() returned
    \* ---- static tables ----
    tab_op,               \* the table function that was called ("none" before the call)
    tab_in,               \* its argument
    tab_out,              \* what it returned
    \* ---- packet-ID service: replay window of one inbound key ----
    rp_high,              \* high-water mark of the window (0: nothing seen)
    rp_seen,              \* the ids inside the window whose bit is set
    rp_in,                \* the id of the last inbound packet
    rp_result,            \* "accepted" or the error code of the last accept(id)
    rp_count,             \* per id, how many times it has been accepted
    \* ---- reliable layer, inbound side ----
    rel_n,                \* control records that have arrived so far
    rel_next,             \* the packet id the TLS adapter is to get next
    rel_buf,              \* the reorder buffer: ids held until they are in sequence
    rel_delivered,        \* the ids handed to the TLS adapter, in order of delivery
    rel_acks,             \* the ids acknowledged to the peer, in order
    rel_what,             \* what receive() did with the last record
    rel_in,               \* the id of the last record
    rel_sid,              \* the sender SID the last record declared
    \* ---- session: key slots, timers, error bus ----
    slots,                \* per key id, the lifecycle state of its slot
    sess_state,           \* the state of the session state machine
    timers,               \* the timers that are armed
    bus,                  \* the error bus: events [code, fatal] in order
    sealed,               \* a fatal event has sealed the session
    sess_op               \* the session step that ran last

\* what the constructor of the SSL object allocates and answers
ctorvars == <<sslconf, heap, ctor_pc, ctor_ret>>

sslvars == <<ssl, mode, hs, bytes_avail, ct_in, ct_out, overflow,
             ssl_op, ssl_status, ssl_ret, ekm_size, ekm_written, ctorvars>>

connvars == <<pc, n_connect, status, session_started, attach_called, foreign_thread_ready>>
sessvars == <<session, graceful_stop_calls, session_stop_calls, dont_restart>>
stopvars == <<stop_called, stop_scope_local, io_queue>>
evvars == <<events, added, dropped, host_calls, last_connected, clock_tick>>
credvars == <<creds, tok>>
apivars == <<api_op, api_ret, stop_log, n_token_calls>>

clivars == <<connvars, sessvars, stopvars, evvars, errors, credvars, apivars>>

cfgvars == <<eval, options, clientconf, n_eval, n_provide, api_arg, api_status>>

obsvars == <<stat_values, n_error_calls, last_err, n_obs, obs_op, obs_arg,
             obs_ci, obs_name, obs_value, obs_bundle>>

tabvars == <<tab_op, tab_in, tab_out>>

rpvars == <<rp_high, rp_seen, rp_in, rp_result, rp_count>>

relvars == <<rel_n, rel_next, rel_buf, rel_delivered, rel_acks, rel_what, rel_in, rel_sid>>

sessionvars == <<slots, sess_state, timers, bus, sealed, sess_op>>

\* the variables of the protocol core
corevars == <<rpvars, relvars, sessionvars>>

\* what the host configures, calls and is called back with besides the above
hostvars == <<clockTickMS, posted, n_calls, sign_req, sig, sign_ret, n_sign>>

vfyvars == <<vfy_arg, vfy_flags, vfy_ret>>

httpvars == <<http, http_pending, http_op, n_requests>>

\* the variables of the library code around the client
chunkvars == <<chunked, ch_body, ch_in, ch_fed, ch_consumed, ch_content, ch_ret>>

libvars == <<vfyvars, httpvars, chunkvars>>

\* the variables added to the first subsystems
extvars == <<corevars, hostvars, libvars>>

\* the variables outside the TLS adapter
restSSL == <<clivars, cfgvars, obsvars, tabvars, extvars>>
\* the variables outside the client's connect, stop, event and credential code
restClient == <<sslvars, obsvars, tabvars, extvars>>

vars == <<sslvars, clivars, cfgvars, obsvars, tabvars, extvars>>

(***************************************************************************)
(* MemQStream (openvpn/buffer/memq_stream.hpp), as far as the adapter      *)
(* uses it: a FIFO of buffers, seen through the number of queued buffers.  *)
(***************************************************************************)
\* MemQStream::size()
MemQ_size(q) == q

\* MemQStream::write_buf(buf): one more queued buffer
MemQ_write_buf(q) == q + 1

\* MemQStream::write(data, size), size > 0: the data is queued as a buffer
MemQ_write(q) == q + 1

\* MemQStream::read_buf(): the front buffer leaves the queue
MemQ_read_buf(q) == q - 1

\* MemQStream::read(data, length): the queue levels a read can leave behind
\* (it takes all that is queued, the front buffer, or part of the front buffer)
MemQ_read(q) == {0, q - 1, q}

(***************************************************************************)
(* BIO callbacks handed to the engine by mbedtls_ssl_set_bio.              *)
(***************************************************************************)
\* ct_read_func on an empty ct_in as a mutant would have it: an error status
ct_read_func_empty_error == "CT_INTERNAL_ERROR"

\* ct_read_func when ct_in.read() yields 0 bytes: actual > 0 ? actual : CT_WOULD_BLOCK
ct_read_func_empty == "CT_WOULD_BLOCK"

\* the buffers the engine can add to ct_out through ct_write_func in one call
ct_write_func(q) == IF q < MaxCtOut THEN {q, MemQ_write(q)} ELSE {q}

(***************************************************************************)
(* The TLS engine (mbed TLS) as a streaming oracle.  One call of the       *)
(* engine ends in a record: the status it returns and the state it leaves. *)
(* The engine reaches the queues only through ct_read_func/ct_write_func.  *)
(***************************************************************************)
EngineRecord(st, qi, qo, h, av) ==
    [status |-> st, ct_in |-> qi, ct_out |-> qo, hs |-> h, avail |-> av]

\* statuses with which the engine gives up on a record it has read
EngineFailures ==
    {"MBEDTLS_ERR_SSL_PEER_CLOSE_NOTIFY", "MBEDTLS_ERR_SSL_OTHER", "CT_INTERNAL_ERROR"}

\* the handshake once the engine's own first flight is out: it needs the
\* peer's records, answers them, and finishes or asks for more
HandshakeAwait(qi, qo, av) ==
    IF qi = 0
    THEN {EngineRecord(ct_read_func_empty, qi, qo, "HANDSHAKE", av)}
    ELSE {EngineRecord(ct_read_func_empty, 0, qo2, "HANDSHAKE", av) :
              qo2 \in ct_write_func(qo)}
         \cup {EngineRecord("OK", qi2, qo2, "HANDSHAKE_OVER", av) :
              qi2 \in MemQ_read(qi), qo2 \in ct_write_func(qo)}
         \cup {EngineRecord(st, qi2, qo, "HANDSHAKE", av) :
              st \in EngineFailures, qi2 \in MemQ_read(qi)}

\* mbedtls_ssl_handshake(ssl): a client first writes its hello
mbedtls_ssl_handshake(qi, qo, h, m, av) ==
    IF h = "HELLO_REQUEST"
    THEN HandshakeAwait(qi, IF m = "client" THEN MemQ_write(qo) ELSE qo, av)
    ELSE IF h = "HANDSHAKE"
    THEN HandshakeAwait(qi, qo, av)
    ELSE {EngineRecord("OK", qi, qo, h, av)}

\* reading application data once the handshake is over
ReadApp(qi, qo, av) ==
    IF av
    THEN {EngineRecord("n", qi, qo, "HANDSHAKE_OVER", av2) : av2 \in BOOLEAN}
    ELSE IF qi = 0
    THEN {EngineRecord(ct_read_func_empty, qi, qo, "HANDSHAKE_OVER", FALSE)}
    ELSE {EngineRecord(ct_read_func_empty, 0, qo, "HANDSHAKE_OVER", FALSE)}
         \cup {EngineRecord("n", qi2, qo, "HANDSHAKE_OVER", av2) :
              qi2 \in MemQ_read(qi), av2 \in BOOLEAN}
         \cup {EngineRecord(st, qi2, qo2, "HANDSHAKE_OVER", FALSE) :
              st \in EngineFailures, qi2 \in MemQ_read(qi), qo2 \in ct_write_func(qo)}

\* mbedtls_ssl_read(ssl, data, capacity): finishes the handshake first
mbedtls_ssl_read(qi, qo, h, m, av) ==
    LET pumped == mbedtls_ssl_handshake(qi, qo, h, m, av)
    IN  {r \in pumped : r.status # "OK"}
        \cup UNION {ReadApp(r.ct_in, r.ct_out, r.avail) : r \in {x \in pumped : x.status = "OK"}}

\* mbedtls_ssl_write(ssl, data, size): finishes the handshake first, then
\* emits one record through ct_write_func
mbedtls_ssl_write(qi, qo, h, m, av) ==
    LET pumped == mbedtls_ssl_handshake(qi, qo, h, m, av)
    IN  {r \in pumped : r.status # "OK"}
        \cup {EngineRecord("n", r.ct_in, MemQ_write(r.ct_out), "HANDSHAKE_OVER", r.avail) :
                 r \in {x \in pumped : x.status = "OK" /\ x.ct_out < MaxCtOut}}
        \cup {EngineRecord("CT_INTERNAL_ERROR", r.ct_in, r.ct_out, "HANDSHAKE_OVER", r.avail) :
                 r \in {x \in pumped : x.status = "OK"}}

\* the engine's record becomes the state of the SSL object
EngineApply(r) ==
    /\ ct_in' = r.ct_in
    /\ ct_out' = r.ct_out
    /\ hs' = r.hs
    /\ bytes_avail' = r.avail
    /\ ssl_status' = r.status

(***************************************************************************)
(* MbedTLSContext::SSL                                                     *)
(***************************************************************************)
\* the user of the SSL object starts the handshake before it moves data
ssl_started == ssl = "live" /\ hs # "HELLO_REQUEST"

\* SSL::start_handshake()
start_handshake ==
    /\ ssl = "live" /\ hs = "HELLO_REQUEST"
    /\ \E r \in mbedtls_ssl_handshake(ct_in, ct_out, hs, mode, bytes_avail) : EngineApply(r)
    /\ ssl_op' = "start_handshake"
    /\ ssl_ret' = "void"
    /\ UNCHANGED <<ssl, mode, overflow, ekm_size, ekm_written>>

\* write_cleartext_unbuffered: what it makes of the engine's status
write_cleartext_ret(st) ==
    IF st \notin {"n", "OK"}
    THEN IF st = "CT_WOULD_BLOCK" THEN "SHOULD_RETRY"
         ELSE IF st = "CT_INTERNAL_ERROR" THEN "throw MbedTLSException(SSL write: internal error)"
         ELSE "throw MbedTLSException(SSL write error)"
    ELSE "size"

\* SSL::write_cleartext_unbuffered(data, size)
write_cleartext_unbuffered ==
    /\ ssl_started
    /\ \E r \in mbedtls_ssl_write(ct_in, ct_out, hs, mode, bytes_avail) :
          /\ EngineApply(r)
          /\ ssl_ret' = write_cleartext_ret(r.status)
    /\ ssl_op' = "write_cleartext_unbuffered"
    /\ UNCHANGED <<ssl, mode, overflow, ekm_size, ekm_written>>

\* read_cleartext with the close-notify branch missing: it falls to the last throw
read_cleartext_ret_no_close_notify(st) ==
    IF st \notin {"n", "OK"}
    THEN IF st = "CT_WOULD_BLOCK" THEN "SHOULD_RETRY"
         ELSE IF st = "CT_INTERNAL_ERROR" THEN "throw MbedTLSException(SSL read: internal error)"
         ELSE "throw MbedTLSException(SSL read error)"
    ELSE "size"

\* read_cleartext: what it makes of the engine's status
read_cleartext_ret(st) ==
    IF st \notin {"n", "OK"}
    THEN IF st = "CT_WOULD_BLOCK" THEN "SHOULD_RETRY"
         ELSE IF st = "MBEDTLS_ERR_SSL_PEER_CLOSE_NOTIFY" THEN "PEER_CLOSE_NOTIFY"
         ELSE IF st = "CT_INTERNAL_ERROR" THEN "throw MbedTLSException(SSL read: internal error)"
         ELSE "throw MbedTLSException(SSL read error)"
    ELSE "size"

\* read_cleartext that looks at the queue instead of the overflow flag
read_cleartext_overflow_test_by_size == MemQ_size(ct_in) >= MAX_CIPHERTEXT_IN

\* read_cleartext: if (!overflow) ... else throw ssl_ciphertext_in_overflow()
read_cleartext_overflow_test == overflow

\* SSL::read_cleartext(data, capacity)
read_cleartext ==
    /\ ssl_started
    /\ IF ~read_cleartext_overflow_test
       THEN \E r \in mbedtls_ssl_read(ct_in, ct_out, hs, mode, bytes_avail) :
               /\ EngineApply(r)
               /\ ssl_ret' = read_cleartext_ret(r.status)
       ELSE /\ ssl_ret' = "throw ssl_ciphertext_in_overflow"
            /\ ssl_status' = "none"
            /\ UNCHANGED <<ct_in, ct_out, hs, bytes_avail>>
    /\ ssl_op' = "read_cleartext"
    /\ UNCHANGED <<ssl, mode, overflow, ekm_size, ekm_written>>

\* write_ciphertext whose test lets a 65th buffer in
write_ciphertext_off_by_one ==
    /\ ssl_started
    /\ IF MemQ_size(ct_in) <= MAX_CIPHERTEXT_IN
       THEN ct_in' = MemQ_write_buf(ct_in) /\ UNCHANGED overflow
       ELSE overflow' = TRUE /\ UNCHANGED ct_in
    /\ ssl_op' = "write_ciphertext"
    /\ ssl_status' = "none"
    /\ ssl_ret' = "void"
    /\ UNCHANGED <<ssl, mode, hs, bytes_avail, ct_out, ekm_size, ekm_written>>

\* SSL::write_ciphertext(buf)
write_ciphertext ==
    /\ ssl_started
    /\ IF MemQ_size(ct_in) < MAX_CIPHERTEXT_IN
       THEN ct_in' = MemQ_write_buf(ct_in) /\ UNCHANGED overflow
       ELSE overflow' = TRUE /\ UNCHANGED ct_in
    /\ ssl_op' = "write_ciphertext"
    /\ ssl_status' = "none"
    /\ ssl_ret' = "void"
    /\ UNCHANGED <<ssl, mode, hs, bytes_avail, ct_out, ekm_size, ekm_written>>

\* SSL::write_ciphertext_unbuffered(data, size)
write_ciphertext_unbuffered ==
    /\ ssl_started
    /\ IF MemQ_size(ct_in) < MAX_CIPHERTEXT_IN
       THEN ct_in' = MemQ_write(ct_in) /\ UNCHANGED overflow
       ELSE overflow' = TRUE /\ UNCHANGED ct_in
    /\ ssl_op' = "write_ciphertext_unbuffered"
    /\ ssl_status' = "none"
    /\ ssl_ret' = "void"
    /\ UNCHANGED <<ssl, mode, hs, bytes_avail, ct_out, ekm_size, ekm_written>>

\* SSL::read_ciphertext_ready()
read_ciphertext_ready == ct_out # 0

\* SSL::read_ciphertext(), called when read_ciphertext_ready()
read_ciphertext ==
    /\ ssl_started
    /\ read_ciphertext_ready
    /\ ct_out' = MemQ_read_buf(ct_out)
    /\ ssl_op' = "read_ciphertext"
    /\ ssl_status' = "none"
    /\ ssl_ret' = "buf"
    /\ UNCHANGED <<ssl, mode, hs, bytes_avail, ct_in, overflow, ekm_size, ekm_written>>

\* an export_keying_material that delivers: fills the buffer and returns true
export_keying_material_filling(size) ==
    /\ ssl_started
    /\ ssl_op' = "export_keying_material"
    /\ ssl_status' = "none"
    /\ ssl_ret' = "true"
    /\ ekm_size' = size
    /\ ekm_written' = size
    /\ UNCHANGED <<ssl, mode, hs, bytes_avail, ct_in, ct_out, overflow>>

\* SSL::export_keying_material(label, dest, size): return false, dest untouched
export_keying_material(size) ==
    /\ ssl_started
    /\ ssl_op' = "export_keying_material"
    /\ ssl_status' = "none"
    /\ ssl_ret' = "false"
    /\ ekm_size' = size
    /\ UNCHANGED <<ssl, mode, hs, bytes_avail, ct_in, ct_out, overflow, ekm_written>>

\* SSL::clear(), the part that is state here
clear_overflow == FALSE

\* the objects behind the smart-pointer members of SSL, which their
\* destructors free: allowed_ciphers, groups, authcert
OwnedByMembers == {"allowed_ciphers", "groups", "authcert"}

\* SSL::erase() on the heap: ssl and sslconf are freed if ssl is set, and
\* clear() resets allowed_ciphers
SSL_erase(p_ssl, h) ==
    (IF p_ssl # "null" THEN h \ {"ssl", "sslconf"} ELSE h) \ {"allowed_ciphers"}

\* SSL::~SSL(): erase() frees the engine and calls clear(); the members are
\* destroyed after it
erase ==
    /\ ssl = "live"
    /\ ssl' = "null"
    /\ sslconf' = "null"
    /\ heap' = SSL_erase(ssl, heap) \ OwnedByMembers
    /\ UNCHANGED <<ctor_pc, ctor_ret>>
    /\ overflow' = clear_overflow
    /\ ssl_op' = "erase"
    /\ ssl_status' = "none"
    /\ ssl_ret' = "void"
    /\ UNCHANGED <<mode, hs, bytes_avail, ct_in, ct_out, ekm_size, ekm_written>>

\* the SSL object after its constructor: clear(), empty queues, engine not started
InitSSL ==
    /\ ssl = "live"
    /\ mode \in {"client", "server"}
    /\ hs = "HELLO_REQUEST"
    /\ bytes_avail = FALSE
    /\ ct_in = 0
    /\ ct_out = 0
    /\ overflow = clear_overflow
    /\ ssl_op = "SSL"
    /\ ssl_status = "none"
    /\ ssl_ret = "void"
    /\ ekm_size = 0
    /\ ekm_written = 0
    /\ sslconf = "live"
    /\ heap = {"ssl", "sslconf"} \cup (IF mode = "server" THEN {"authcert"} ELSE {})
    /\ ctor_pc = "done"
    /\ ctor_ret = "ok"

NextSSL ==
    \/ start_handshake /\ UNCHANGED <<restSSL, ctorvars>>
    \/ write_cleartext_unbuffered /\ UNCHANGED <<restSSL, ctorvars>>
    \/ read_cleartext /\ UNCHANGED <<restSSL, ctorvars>>
    \/ write_ciphertext /\ UNCHANGED <<restSSL, ctorvars>>
    \/ write_ciphertext_unbuffered /\ UNCHANGED <<restSSL, ctorvars>>
    \/ read_ciphertext /\ UNCHANGED <<restSSL, ctorvars>>
    \/ \E size \in 1..MaxEkmSize : export_keying_material(size) /\ UNCHANGED <<restSSL, ctorvars>>
    \/ erase /\ UNCHANGED restSSL

(***************************************************************************)
(* The constructor MbedTLSContext::SSL::SSL(ctx, hostname), step by step.  *)
(* Its body is one try block; catch (...) calls erase() and rethrows.      *)
(***************************************************************************)
\* the SSL variables the constructor's steps leave alone
ctorframe == <<mode, hs, bytes_avail, ct_in, ct_out, overflow,
               ssl_op, ssl_status, ssl_ret, ekm_size, ekm_written>>

\* TLSCertProfile::Type as Config::tls_cert_profile holds it after default_if_undef
TLSCertProfiles == {"INSECURE", "LEGACY", "PREFERRED", "SUITEB"}

\* Config::select_crt_profile(): the profile handed to the engine, or "throw";
\* the INSECURE case exists only if OPENVPN_ALLOW_INSECURE_CERTPROFILE is defined
select_crt_profile(profile, allow_insecure) ==
    IF profile = "INSECURE" /\ allow_insecure THEN "crt_profile_insecure"
    ELSE IF profile = "LEGACY" THEN "crt_profile_legacy"
    ELSE IF profile = "PREFERRED" THEN "crt_profile_preferred"
    ELSE IF profile = "SUITEB" THEN "mbedtls_x509_crt_profile_suiteb"
    ELSE "throw"

\* the fields of Config the constructor reads after the SSL object is allocated,
\* and whether the three engine calls it checks succeed
SSLConfigs ==
    [no_verify_peer : BOOLEAN, peer_cert_optional : BOOLEAN,
     tls_cipher_list : BOOLEAN, tls_groups : BOOLEAN, ca_chain : BOOLEAN,
     local_cert_enabled : BOOLEAN, external_pki : BOOLEAN, crt_chain : BOOLEAN,
     crt_is_rsa : BOOLEAN, priv_key : BOOLEAN, dh : BOOLEAN, rng : BOOLEAN,
     set_hostname_ok : BOOLEAN, dh_param_ok : BOOLEAN, ssl_setup_ok : BOOLEAN]

\* the exception the rest of the constructor throws for Config c ("" if none):
\* the checks in the order of the code
SSL_configure_throws(c) ==
    IF ~c.no_verify_peer /\ c.peer_cert_optional
        THEN "Optional peer verification not supported"
    ELSE IF ~c.ca_chain /\ ~c.no_verify_peer
        THEN "CA chain not defined"
    ELSE IF ~c.set_hostname_ok
        THEN "mbedtls_ssl_set_hostname failed"
    ELSE IF c.local_cert_enabled /\ c.external_pki /\ c.crt_chain /\ ~c.crt_is_rsa
        THEN "cert has unsupported type for external pki support"
    ELSE IF c.local_cert_enabled /\ c.external_pki /\ ~c.crt_chain
        THEN "cert is undefined"
    ELSE IF c.local_cert_enabled /\ ~c.external_pki /\ ~(c.crt_chain /\ c.priv_key)
        THEN "cert and/or private key is undefined"
    ELSE IF c.dh /\ ~c.dh_param_ok
        THEN "error in ssl_set_dh_param_ctx"
    ELSE IF ~c.rng
        THEN "RNG not defined"
    ELSE IF ~c.ssl_setup_ok
        THEN "mbedtls_ssl_setup failed"
    ELSE ""

\* what set_mbedtls_cipherlist and set_mbedtls_groups allocate for Config c;
\* the authmode check comes before them
SSL_configure_allocates(c) ==
    IF ~c.no_verify_peer /\ c.peer_cert_optional THEN {}
    ELSE (IF c.tls_cipher_list THEN {"allowed_ciphers"} ELSE {})
         \cup (IF c.tls_groups THEN {"groups"} ELSE {})

\* the constructor throws message: control goes to catch (...)
SSL_throw(message) ==
    /\ ctor_ret' = message
    /\ ctor_pc' = "catch"

\* "set client/server mode": a server gets an AuthCert, an unknown mode throws
SSL_set_mode ==
    /\ ctor_pc = "mode"
    /\ IF mode = "server"
         THEN heap' = heap \cup {"authcert"} /\ ctor_pc' = "new_sslconf" /\ UNCHANGED ctor_ret
       ELSE IF mode = "client"
         THEN ctor_pc' = "new_sslconf" /\ UNCHANGED <<heap, ctor_ret>>
       ELSE SSL_throw("unknown client/server mode") /\ UNCHANGED heap
    /\ UNCHANGED <<ssl, sslconf, ctorframe>>

\* "init SSL configuration object": sslconf = new mbedtls_ssl_config
SSL_new_sslconf(alloc_ok) ==
    /\ ctor_pc = "new_sslconf"
    /\ IF alloc_ok
         THEN /\ sslconf' = "live"
              /\ heap' = heap \cup {"sslconf"}
              /\ ctor_pc' = "cert_profile"
              /\ UNCHANGED ctor_ret
         ELSE SSL_throw("std::bad_alloc") /\ UNCHANGED <<sslconf, heap>>
    /\ UNCHANGED <<ssl, ctorframe>>

\* "init X509 cert profile": mbedtls_ssl_conf_cert_profile(sslconf, c.select_crt_profile())
SSL_conf_cert_profile(profile, allow_insecure) ==
    /\ ctor_pc = "cert_profile"
    /\ IF select_crt_profile(profile, allow_insecure) = "throw"
         THEN SSL_throw("select_crt_profile: unknown cert profile")
         ELSE ctor_pc' = "new_ssl" /\ UNCHANGED ctor_ret
    /\ UNCHANGED <<ssl, sslconf, heap, ctorframe>>

\* "init SSL object": ssl = new mbedtls_ssl_context
SSL_new_ssl(alloc_ok) ==
    /\ ctor_pc = "new_ssl"
    /\ IF alloc_ok
         THEN /\ ssl' = "live"
              /\ heap' = heap \cup {"ssl"}
              /\ ctor_pc' = "configure"
              /\ UNCHANGED ctor_ret
         ELSE SSL_throw("std::bad_alloc") /\ UNCHANGED <<ssl, heap>>
    /\ UNCHANGED <<sslconf, ctorframe>>

\* the rest of the try block, from the minimum TLS version to mbedtls_ssl_setup
SSL_configure(c) ==
    /\ ctor_pc = "configure"
    /\ heap' = heap \cup SSL_configure_allocates(c)
    /\ IF SSL_configure_throws(c) = ""
         THEN ctor_pc' = "done" /\ ctor_ret' = "ok"
         ELSE SSL_throw(SSL_configure_throws(c))
    /\ UNCHANGED <<ssl, sslconf, ctorframe>>

\* catch (...) { erase(); throw; }: the exception leaves the constructor, and
\* the members of the half-built object are destroyed
SSL_catch ==
    /\ ctor_pc = "catch"
    /\ ssl' = "null"
    /\ sslconf' = "null"
    /\ heap' = SSL_erase(ssl, heap) \ OwnedByMembers
    /\ ctor_pc' = "failed"
    /\ UNCHANGED <<ctor_ret, ctorframe>>

\* the constructor runs on any configuration
NextCtor ==
    \/ SSL_set_mode /\ UNCHANGED restSSL
    \/ \E alloc_ok \in BOOLEAN : SSL_new_sslconf(alloc_ok) /\ UNCHANGED restSSL
    \/ \E profile \in TLSCertProfiles, allow_insecure \in BOOLEAN :
          SSL_conf_cert_profile(profile, allow_insecure) /\ UNCHANGED restSSL
    \/ \E alloc_ok \in BOOLEAN : SSL_new_ssl(alloc_ok) /\ UNCHANGED restSSL
    \/ \E c \in SSLConfigs : SSL_configure(c) /\ UNCHANGED restSSL
    \/ SSL_catch /\ UNCHANGED restSSL

(***************************************************************************)
(* MbedTLSContext::verify_callback_client(arg, cert, depth, flags): the    *)
(* callback the TLS engine runs for every certificate of the server chain. *)
(***************************************************************************)
\* the bits of the engine's verification flags word that the model tells apart
X509Flags == {"BADCERT_EXPIRED", "BADCERT_NOT_TRUSTED", "BADCERT_OTHER"}

\* VerifyX509Name::Mode
VerifyX509Modes == {"VERIFY_X509_NONE", "VERIFY_X509_SUBJECT_DN",
                    "VERIFY_X509_SUBJECT_RDN", "VERIFY_X509_SUBJECT_RDN_PREFIX"}

\* what is configured and what each check finds on the certificate at hand
LeafChecks ==
    [ns_cert_type_defined : BOOLEAN, verify_ns_cert_type : BOOLEAN,
     x509_cert_ku_defined : BOOLEAN, verify_x509_cert_ku : BOOLEAN,
     x509_cert_eku_defined : BOOLEAN, verify_x509_cert_eku : BOOLEAN,
     tls_remote_empty : BOOLEAN, tls_remote_test : BOOLEAN,
     verify_x509_mode : VerifyX509Modes, verify_x509_verify : BOOLEAN]

\* the local 'fail' after each leaf check, in the order of the code
fail_ns(k) == k.ns_cert_type_defined /\ ~k.verify_ns_cert_type
fail_ku(k) == IF k.x509_cert_ku_defined /\ ~k.verify_x509_cert_ku THEN TRUE ELSE fail_ns(k)
fail_eku(k) == IF k.x509_cert_eku_defined /\ ~k.verify_x509_cert_eku THEN TRUE ELSE fail_ku(k)
fail_tls_remote(k) == IF ~k.tls_remote_empty /\ ~k.tls_remote_test THEN TRUE ELSE fail_eku(k)
fail_verify_x509_masking(k) ==
    IF k.verify_x509_mode # "VERIFY_X509_NONE" THEN ~k.verify_x509_verify ELSE fail_tls_remote(k)
fail_verify_x509(k) ==
    IF k.verify_x509_mode # "VERIFY_X509_NONE" /\ ~k.verify_x509_verify
        THEN TRUE ELSE fail_tls_remote(k)

\* the flags word when the callback returns: *flags |= MBEDTLS_X509_BADCERT_OTHER if fail
verify_callback_client(depth, k, flags) ==
    IF depth = 0 /\ fail_verify_x509(k) THEN flags \cup {"BADCERT_OTHER"} ELSE flags

\* the engine calls the callback on a certificate
verify_callback_client_call ==
    /\ vfy_ret = "none"
    /\ vfy_flags' = verify_callback_client(vfy_arg.depth, vfy_arg.checks, vfy_flags)
    /\ vfy_ret' = "0"
    /\ UNCHANGED vfy_arg

\* the calls the engine can make
VerifyCalls == [depth : 0..MaxDepth, flags : SUBSET X509Flags, checks : LeafChecks]

\* no certificate is being verified
VerifyFresh ==
    /\ vfy_arg = [depth |-> 0, flags |-> {},
                  checks |-> [ns_cert_type_defined |-> FALSE, verify_ns_cert_type |-> FALSE,
                              x509_cert_ku_defined |-> FALSE, verify_x509_cert_ku |-> FALSE,
                              x509_cert_eku_defined |-> FALSE, verify_x509_cert_eku |-> FALSE,
                              tls_remote_empty |-> TRUE, tls_remote_test |-> FALSE,
                              verify_x509_mode |-> "VERIFY_X509_NONE",
                              verify_x509_verify |-> FALSE]]
    /\ vfy_flags = {}
    /\ vfy_ret = "idle"

(***************************************************************************)
(* WS::Client::HTTPCore: the asynchronous HTTP client.  A handler runs to  *)
(* its end before the next one starts (one io_service thread).  In the     *)
(* operators h is the HTTPCore object; h.thrown says that an exception is  *)
(* propagating.                                                            *)
(***************************************************************************)
\* HTTPCore after its constructor: alive(false); HTTPBase starts ready, not halted
HTTPConstructed ==
    [halt |-> FALSE, ready |-> TRUE, alive |-> FALSE, link |-> "null",
     keepalive |-> FALSE, phase |-> "idle", trace |-> <<>>, thrown |-> FALSE]

\* HTTPBase::is_ready()
is_ready(h) == ~h.halt /\ h.ready

\* HTTPCore::stop()
HTTPCore_stop(h) ==
    IF ~h.halt
        THEN [h EXCEPT !.halt = TRUE, !.ready = FALSE, !.alive = FALSE,
                       !.link = IF @ = "started" THEN "stopped" ELSE @]
        ELSE h

\* a virtual method the host implements is called; it returns or throws
HostCall(h, cb, code, throws) ==
    [h EXCEPT !.trace = Append(@, [cb |-> cb, status |-> code]), !.thrown = throws]

\* HTTPCore::error_handler(errcode, err), reading ready and alive after stop()
error_handler_after_stop(h, errcode, throws) ==
    LET s == HTTPCore_stop(h)
    IN  IF ~s.ready THEN HostCall(s, "http_done", errcode, throws)
        ELSE IF s.alive THEN HostCall(s, "http_keepalive_close", errcode, throws)
        ELSE s
\* HTTPCore::error_handler(errcode, err)
error_handler(h, errcode, throws) ==
    LET in_transaction == ~h.ready
        keepalive == h.alive
        s == HTTPCore_stop(h)
    IN  IF in_transaction THEN HostCall(s, "http_done", errcode, throws)
        ELSE IF keepalive THEN HostCall(s, "http_keepalive_close", errcode, throws)
        ELSE s

\* HTTPCore::handle_exception(func_name, e), entered from a catch block
handle_exception(h, throws) ==
    error_handler([h EXCEPT !.thrown = FALSE], "E_EXCEPTION", throws)

\* try { ... r ... } catch (const std::exception& e) { handle_exception(...); }
Caught(r, throws) == IF r.thrown THEN handle_exception(r, throws) ELSE r

\* HTTPCore::base_http_done_handler()
base_http_done_handler(h, throws) ==
    IF h.halt THEN h
    ELSE LET s == IF h.keepalive
                     THEN [h EXCEPT !.alive = TRUE, !.ready = TRUE]
                     ELSE HTTPCore_stop(h)
         IN  HostCall([s EXCEPT !.phase = "idle"], "http_done", "E_SUCCESS", throws)

\* HTTPCore::generate_request(): http_request() and http_content_info() are
\* asked of the host, the request goes out
generate_request(h, keepalive, throws) ==
    IF throws THEN HostCall(h, "http_request", "", TRUE)
    ELSE HostCall([h EXCEPT !.keepalive = keepalive, !.phase = "xfer"],
                  "http_request", "", FALSE)

\* HTTPCore::handle_request()
handle_request(h, frame_defined, keepalive, throws, throws_again) ==
    IF h.halt THEN h
    ELSE Caught(IF h.ready \/ ~frame_defined THEN [h EXCEPT !.thrown = TRUE]
                ELSE IF h.alive THEN generate_request(h, keepalive, throws)
                ELSE HostCall([h EXCEPT !.phase = "resolve"], "http_host", "", throws),
                throws_again)

\* HTTPCore::handle_resolve(error, endpoint_iterator)
handle_resolve(h, error, throws) ==
    IF h.halt THEN h
    ELSE IF error THEN error_handler(h, "E_RESOLVE", throws)
    ELSE [h EXCEPT !.phase = "connect"]

\* HTTPCore::handle_connect(error, iterator)
handle_connect(h, error, keepalive, throws, throws_again) ==
    IF h.halt THEN h
    ELSE IF error THEN error_handler(h, "E_CONNECT", throws)
    ELSE Caught(generate_request([h EXCEPT !.link = "started"], keepalive, throws),
                throws_again)

\* HTTPCore::general_timeout_handler(e)
general_timeout_handler(h, e, throws) ==
    IF ~h.halt /\ ~e THEN error_handler(h, "E_GENERAL_TIMEOUT", throws) ELSE h

\* HTTPCore::connect_timeout_handler(e)
connect_timeout_handler(h, e, throws) ==
    IF ~h.halt /\ ~e THEN error_handler(h, "E_CONNECT_TIMEOUT", throws) ELSE h

\* what a buffer read from the link makes HTTPBase do: hand content to the
\* host, hand content to the host and see the reply complete, see the reply
\* complete, or reject the reply
TcpIn == {"content", "content_done", "done", "error"}

\* HTTPBase::tcp_in(b): the reply parser calls base_http_content_in,
\* base_http_done_handler or base_error_handler; the host may call stop()
\* from http_content_in
tcp_in(h, what, host_stops, throws) ==
    IF what = "content" THEN HostCall(h, "http_content_in", "", throws)
    ELSE IF what = "content_done"
        THEN LET c == HostCall(h, "http_content_in", "", FALSE)
             IN  base_http_done_handler(IF host_stops THEN HTTPCore_stop(c) ELSE c, throws)
    ELSE IF what = "done" THEN base_http_done_handler(h, throws)
    ELSE error_handler(h, "E_HTTP", throws)

\* HTTPCore::tcp_read_handler(b) without its test of halt
tcp_read_handler_unhalted(h, what, host_stops, throws, throws_again) ==
    Caught(tcp_in(h, what, host_stops, throws), throws_again)
\* HTTPCore::tcp_read_handler(b)
tcp_read_handler(h, what, host_stops, throws, throws_again) ==
    IF h.halt THEN h
    ELSE Caught(tcp_in(h, what, host_stops, throws), throws_again)

\* HTTPCore::tcp_write_queue_empty(): http_out() asks the host for content
tcp_write_queue_empty(h, throws, throws_again) ==
    IF h.halt THEN h
    ELSE Caught(HostCall(h, "http_content_out", "", throws), throws_again)

\* HTTPCore::tcp_eof_handler()
tcp_eof_handler(h, throws, throws_again) ==
    IF h.halt THEN h
    ELSE Caught(error_handler(h, "E_EOF_TCP", throws), throws_again)

\* HTTPCore::tcp_error_handler(error)
tcp_error_handler(h, throws) ==
    IF h.halt THEN h
    ELSE error_handler(h, "E_TCP", throws)

\* a handler has run and left the object as r; an exception still propagating
\* leaves the handler
HTTPStep(name, errcode, r, pending) ==
    /\ http' = [r EXCEPT !.thrown = FALSE]
    /\ http_op' = [name |-> name, halted |-> http.halt,
                   err |-> IF http.halt THEN "" ELSE errcode]
    /\ http_pending' = pending
    /\ UNCHANGED n_requests

\* the host calls start_request(): handle_request is posted
start_request ==
    /\ n_requests < MaxRequests
    /\ is_ready(http)
    /\ http' = [http EXCEPT !.ready = FALSE, !.phase = "request",
                            !.trace = Append(@, [cb |-> "start_request", status |-> ""])]
    /\ http_pending' = http_pending \cup {"handle_request"}
    /\ http_op' = [name |-> "start_request", halted |-> FALSE, err |-> ""]
    /\ n_requests' = n_requests + 1

\* the host calls stop()
http_stop ==
    HTTPStep("stop", "", HTTPCore_stop(http), http_pending)

\* asio runs the posted handle_request
request_posted ==
    /\ "handle_request" \in http_pending
    /\ \E frame_defined, keepalive, throws, throws_again \in BOOLEAN :
          LET r == handle_request(http, frame_defined, keepalive, throws, throws_again)
              armed == IF http.halt \/ http.ready \/ ~frame_defined THEN {}
                       ELSE {"general_timeout"}
              begun == IF ~r.halt /\ r.phase = "resolve"
                       THEN {"connect_timeout", "handle_resolve"} ELSE {}
          IN  HTTPStep("handle_request", "", r,
                       (http_pending \ {"handle_request"}) \cup armed \cup begun)

\* the resolver completes, with the addresses, an error or operation_aborted
resolve_done ==
    /\ "handle_resolve" \in http_pending
    /\ \E error, throws \in BOOLEAN :
          LET r == handle_resolve(http, error, throws)
          IN  HTTPStep("handle_resolve", IF error THEN "E_RESOLVE" ELSE "", r,
                       (http_pending \ {"handle_resolve"})
                           \cup (IF ~r.halt THEN {"handle_connect"} ELSE {}))

\* the connect completes, connected or with an error
connect_done ==
    /\ "handle_connect" \in http_pending
    /\ \E error, keepalive, throws, throws_again \in BOOLEAN :
          HTTPStep("handle_connect", IF error THEN "E_CONNECT" ELSE "",
                   handle_connect(http, error, keepalive, throws, throws_again),
                   http_pending \ {"handle_connect"})

\* the wait on general_timer completes: expired (e is success) or cancelled
general_timeout ==
    /\ "general_timeout" \in http_pending
    /\ \E e, throws \in BOOLEAN :
          HTTPStep("general_timeout_handler", IF e THEN "" ELSE "E_GENERAL_TIMEOUT",
                   general_timeout_handler(http, e, throws),
                   http_pending \ {"general_timeout"})

\* the wait on connect_timer completes: expired (e is success) or cancelled
connect_timeout ==
    /\ "connect_timeout" \in http_pending
    /\ \E e, throws \in BOOLEAN :
          HTTPStep("connect_timeout_handler", IF e THEN "" ELSE "E_CONNECT_TIMEOUT",
                   connect_timeout_handler(http, e, throws),
                   http_pending \ {"connect_timeout"})

\* the link has read a buffer of the reply
tcp_read ==
    /\ http.link # "null"
    /\ http.halt \/ http.phase = "xfer"
    /\ \E what \in TcpIn, host_stops, throws, throws_again \in BOOLEAN :
          /\ what \in {"content", "content_done"} => Len(http.trace) < MaxHttpTrace
          /\ HTTPStep("tcp_read_handler", IF what = "error" THEN "E_HTTP" ELSE "",
                      tcp_read_handler(http, what, host_stops, throws, throws_again),
                      http_pending)

\* the link has sent all it was given
tcp_write_ready ==
    /\ http.link # "null"
    /\ http.halt \/ (http.phase = "xfer" /\ Len(http.trace) < MaxHttpTrace)
    /\ \E throws, throws_again \in BOOLEAN :
          HTTPStep("tcp_write_queue_empty", "",
                   tcp_write_queue_empty(http, throws, throws_again), http_pending)

\* the server has closed the connection
tcp_eof ==
    /\ http.link # "null"
    /\ \E throws, throws_again \in BOOLEAN :
          HTTPStep("tcp_eof_handler", "E_EOF_TCP",
                   tcp_eof_handler(http, throws, throws_again), http_pending)

\* the link reports a socket error
tcp_error ==
    /\ http.link # "null"
    /\ \E throws \in BOOLEAN :
          HTTPStep("tcp_error_handler", "E_TCP", tcp_error_handler(http, throws), http_pending)

\* the reply parser calls base_http_done_handler() after the host has called
\* stop() from a callback of the same read
done_after_stop ==
    /\ http.halt /\ http.link # "null"
    /\ \E throws \in BOOLEAN :
          HTTPStep("base_http_done_handler", "", base_http_done_handler(http, throws),
                   http_pending)

\* an HTTP client nobody has used yet
HTTPFresh ==
    /\ http = HTTPConstructed
    /\ http_pending = {}
    /\ http_op = [name |-> "HTTPCore", halted |-> FALSE, err |-> ""]
    /\ n_requests = 0

\* ChunkedHelper::ChunkedHelper(): state(hex), size(0)
ChunkedConstructed == [state |-> "hex", size |-> 0]

\* no chunked body: the stream is an arbitrary one
NoBody == [wellformed |-> FALSE, chunks |-> <<>>, trailers |-> <<>>]

\* a decoder nothing has been fed to
ChunkedFresh ==
    /\ chunked = ChunkedConstructed
    /\ ch_body = NoBody
    /\ ch_in = <<>>
    /\ ch_fed = <<>>
    /\ ch_consumed = 0
    /\ ch_content = <<>>
    /\ ch_ret = "none"

LibFresh == VerifyFresh /\ HTTPFresh /\ ChunkedFresh

(***************************************************************************)
(* ClientEvent objects (openvpn/client/clievent.hpp), as add_event reads   *)
(* them: id(), name(), render(), is_error(), is_fatal().                   *)
(***************************************************************************)
ClientEvent(id, info, error, fatal) ==
    [id |-> id, name |-> id, info |-> info, error |-> error, fatal |-> fatal]

\* ClientEvent::Connected, with the connection data it carries
Connected(user, server_host, server_ip) ==
    [id |-> "CONNECTED", name |-> "CONNECTED", info |-> "user@host:1194", error |-> FALSE,
     fatal |-> FALSE, user |-> user, server_host |-> server_host, server_ip |-> server_ip]

EV_CONNECTED == Connected("user", "host", "10.0.0.1")
\* the CONNECTED event of a reconnect that reached another server address
EV_RECONNECTED == Connected("user", "host", "10.0.0.2")
\* no event: a null ClientEvent::Base::Ptr
NoEvent == ClientEvent("none", "", FALSE, FALSE)
EV_DISCONNECTED == ClientEvent("DISCONNECTED", "", FALSE, FALSE)
EV_TRANSPORT_ERROR == ClientEvent("TRANSPORT_ERROR", "recv error", TRUE, FALSE)
EV_AUTH_FAILED == ClientEvent("AUTH_FAILED", "bad password", TRUE, TRUE)
EV_EPKI_ERROR == ClientEvent("EPKI_ERROR", "errorText", TRUE, TRUE)
EV_EPKI_INVALID_ALIAS == ClientEvent("EPKI_INVALID_ALIAS", "alias", TRUE, TRUE)

\* ClientEvent::AppCustomControlMessage
EV_CUSTOM_CONTROL ==
    [id |-> "CUSTOM_CONTROL", name |-> "CUSTOM_CONTROL", info |-> "proto msg",
     error |-> FALSE, fatal |-> FALSE, protocol |-> "proto", custommessage |-> "msg"]

\* the events a running session queues
SessionEvents == {EV_CONNECTED, EV_CUSTOM_CONTROL, EV_TRANSPORT_ERROR}

(***************************************************************************)
(* MyClientEvents                                                          *)
(***************************************************************************)
\* the event queue and what came of it, as one value
EventState ==
    [events |-> events, added |-> added, dropped |-> dropped, host_calls |-> host_calls,
     last_connected |-> last_connected, clock_tick |-> clock_tick]

\* the AppCustomControlMessageEvent handed to acc_event()
AccEventCall(event) ==
    [cb |-> "acc_event", protocol |-> event.protocol, payload |-> event.custommessage]

\* an Event built with the error and fatal flags crossed
EventCall_flags_crossed(event) ==
    [cb |-> "event", name |-> event.name, info |-> event.info,
     error |-> event.fatal, fatal |-> event.error]

\* the Event handed to event()
EventCall(event) ==
    [cb |-> "event", name |-> event.name, info |-> event.info,
     error |-> event.error, fatal |-> event.fatal]

\* AsioTimer::cancel(): a wait that is pending completes with
\* operation_aborted; a wait whose timer has expired already has its handler
\* queued with success, and cancel() does not reach it
AsioTimer_cancel(timer) == IF timer = "pending" THEN "aborted" ELSE timer

\* ClientState::on_disconnect(): if (clock_tick) clock_tick->cancel()
on_disconnect(timer) == IF timer # "none" THEN AsioTimer_cancel(timer) ELSE timer

\* an add_event that drops the saved CONNECTED event at the DISCONNECTED event
add_event_forgetting_at_disconnect(es, event) ==
    IF es.events = "attached"
    THEN IF event.id = "CUSTOM_CONTROL"
         THEN [es EXCEPT !.added = Append(@, event),
                         !.host_calls = Append(@, AccEventCall(event))]
         ELSE [es EXCEPT !.added = Append(@, event),
                         !.host_calls = Append(@, EventCall(event)),
                         !.last_connected = IF event.id = "CONNECTED" THEN event
                                            ELSE IF event.id = "DISCONNECTED" THEN NoEvent
                                            ELSE @,
                         !.clock_tick = IF event.id = "DISCONNECTED"
                                        THEN on_disconnect(@) ELSE @]
    ELSE [es EXCEPT !.dropped = @ + 1]

\* MyClientEvents::add_event(event)
add_event(es, event) ==
    IF es.events = "attached"
    THEN IF event.id = "CUSTOM_CONTROL"
         THEN [es EXCEPT !.added = Append(@, event),
                         !.host_calls = Append(@, AccEventCall(event))]
         ELSE [es EXCEPT !.added = Append(@, event),
                         !.host_calls = Append(@, EventCall(event)),
                         !.last_connected = IF event.id = "CONNECTED" THEN event ELSE @,
                         !.clock_tick = IF event.id = "DISCONNECTED"
                                        THEN on_disconnect(@) ELSE @]
    ELSE [es EXCEPT !.dropped = @ + 1]

\* the clock_tick() callback, as the host sees it
ClockTickCall == [cb |-> "clock_tick"]

\* the completion handler of MyClockTick::schedule(): it returns if the wait
\* was aborted, and else calls parent->clock_tick() and schedule() again
\* (parent is set for as long as the client object exists)
MyClockTick_handler(es) ==
    IF es.clock_tick = "ready"
    THEN [es EXCEPT !.host_calls = Append(@, ClockTickCall), !.clock_tick = "pending"]
    ELSE IF es.clock_tick = "aborted"
    THEN [es EXCEPT !.clock_tick = "idle"]
    ELSE es

\* the clock_tick() callbacks made so far
Ticks == Cardinality({i \in 1..Len(host_calls) : host_calls[i].cb = "clock_tick"})

\* the event queue takes the value es
EventStateBecomes(es) ==
    /\ events' = es.events
    /\ added' = es.added
    /\ dropped' = es.dropped
    /\ host_calls' = es.host_calls
    /\ last_connected' = es.last_connected
    /\ clock_tick' = es.clock_tick

(***************************************************************************)
(* Error::Type and Error::name (openvpn/error/error.hpp)                   *)
(***************************************************************************)
\* the enumerators of Error::Type in the order of their values, SUCCESS = 0
\* first (N_ERRORS and the alias UNDEF = SUCCESS are not codes of their own)
ErrorTypes ==
    << "SUCCESS", "NETWORK_RECV_ERROR", "NETWORK_EOF_ERROR",
       "NETWORK_SEND_ERROR", "NETWORK_UNAVAILABLE", "DECRYPT_ERROR",
       "HMAC_ERROR", "REPLAY_ERROR", "BUFFER_ERROR", "CC_ERROR", "BAD_SRC_ADDR",
       "COMPRESS_ERROR", "RESOLVE_ERROR", "SOCKET_PROTECT_ERROR",
       "TUN_READ_ERROR", "TUN_WRITE_ERROR", "TUN_FRAMING_ERROR",
       "TUN_SETUP_FAILED", "TUN_IFACE_CREATE", "TUN_IFACE_DISABLED", "TUN_ERROR",
       "TUN_REGISTER_RINGS_ERROR", "TAP_NOT_SUPPORTED", "REROUTE_GW_NO_DNS",
       "TRANSPORT_ERROR", "TCP_OVERFLOW", "TCP_SIZE_ERROR", "TCP_CONNECT_ERROR",
       "UDP_CONNECT_ERROR", "SSL_ERROR", "SSL_PARTIAL_WRITE",
       "SSL_CA_MD_TOO_WEAK", "SSL_CA_KEY_TOO_SMALL", "SSL_DH_KEY_TOO_SMALL",
       "ENCAPSULATION_ERROR", "EPKI_CERT_ERROR", "EPKI_SIGN_ERROR",
       "HANDSHAKE_TIMEOUT", "KEEPALIVE_TIMEOUT", "INACTIVE_TIMEOUT",
       "CONNECTION_TIMEOUT", "PRIMARY_EXPIRE", "TLS_VERSION_MIN",
       "CERT_VERIFY_FAIL", "TLS_SIGALG_DISALLOWED_OR_UNSUPPORTED",
       "TLS_ALERT_PROTOCOL_VERSION", "TLS_ALERT_UNKNOWN_CA",
       "TLS_ALERT_HANDSHAKE_FAILURE", "TLS_ALERT_CERTIFICATE_REQUIRED",
       "TLS_ALERT_CERTIFICATE_EXPIRED", "TLS_ALERT_CERTIFICATE_REVOKED",
       "TLS_ALERT_BAD_CERTIFICATE", "TLS_ALERT_UNSUPPORTED_CERTIFICATE",
       "TLS_ALERT_MISC", "TLS_AUTH_FAIL", "TLS_CRYPT_META_FAIL",
       "PEM_PASSWORD_FAIL", "AUTH_FAILED", "CLIENT_HALT", "CLIENT_RESTART",
       "TUN_HALT", "RELAY", "RELAY_ERROR", "N_PAUSE", "N_RECONNECT",
       "N_KEY_LIMIT_RENEG", "KEY_STATE_ERROR", "PROXY_ERROR", "PROXY_NEED_CREDS",
       "EARLY_NEG_INVALID", "NTLM_MISSING_CRYPTO", "UNUSED_OPTIONS",
       "SESSION_EXPIRED", "NEED_CREDS", "KEV_NEGOTIATE_ERROR",
       "KEV_PENDING_ERROR", "N_KEV_EXPIRE", "KEY_EXPANSION_ERROR",
       "PKTID_INVALID", "PKTID_BACKTRACK", "PKTID_EXPIRE", "PKTID_REPLAY",
       "PKTID_TIME_BACKTRACK" >>

\* the names[] array of Error::name
ErrorNames ==
    << "SUCCESS", "NETWORK_RECV_ERROR", "NETWORK_EOF_ERROR",
       "NETWORK_SEND_ERROR", "NETWORK_UNAVAILABLE", "DECRYPT_ERROR",
       "HMAC_ERROR", "REPLAY_ERROR", "BUFFER_ERROR", "CC_ERROR", "BAD_SRC_ADDR",
       "COMPRESS_ERROR", "RESOLVE_ERROR", "SOCKET_PROTECT_ERROR",
       "TUN_READ_ERROR", "TUN_WRITE_ERROR", "TUN_FRAMING_ERROR",
       "TUN_SETUP_FAILED", "TUN_IFACE_CREATE", "TUN_IFACE_DISABLED", "TUN_ERROR",
       "TUN_REGISTER_RINGS_ERROR", "TAP_NOT_SUPPORTED", "REROUTE_GW_NO_DNS",
       "TRANSPORT_ERROR", "TCP_OVERFLOW", "TCP_SIZE_ERROR", "TCP_CONNECT_ERROR",
       "UDP_CONNECT_ERROR", "SSL_ERROR", "SSL_PARTIAL_WRITE",
       "SSL_CA_MD_TOO_WEAK", "SSL_CA_KEY_TOO_SMALL", "SSL_DH_KEY_TOO_SMALL",
       "ENCAPSULATION_ERROR", "EPKI_CERT_ERROR", "EPKI_SIGN_ERROR",
       "HANDSHAKE_TIMEOUT", "KEEPALIVE_TIMEOUT", "INACTIVE_TIMEOUT",
       "CONNECTION_TIMEOUT", "PRIMARY_EXPIRE", "TLS_VERSION_MIN",
       "CERT_VERIFY_FAIL", "TLS_SIGALG_DISALLOWED_OR_UNSUPPORTED",
       "TLS_ALERT_PROTOCOL_VERSION", "TLS_ALERT_UNKNOWN_CA",
       "TLS_ALERT_HANDSHAKE_FAILURE", "TLS_ALERT_CERTIFICATE_REQUIRED",
       "TLS_ALERT_CERTIFICATE_EXPIRED", "TLS_ALERT_CERTIFICATE_REVOKED",
       "TLS_ALERT_BAD_CERTIFICATE", "TLS_ALERT_UNSUPPORTED_CERTIFICATE",
       "TLS_ALERT_MISC", "TLS_AUTH_FAIL", "TLS_CRYPT_META_FAIL",
       "PEM_PASSWORD_FAIL", "AUTH_FAILED", "CLIENT_HALT", "CLIENT_RESTART",
       "TUN_HALT", "RELAY", "RELAY_ERROR", "N_PAUSE", "N_RECONNECT",
       "N_KEY_LIMIT_RENEG", "KEY_STATE_ERROR", "PROXY_ERROR", "PROXY_NEED_CREDS",
       "EARLY_NEG_INVALID", "NTLM_MISSING_CRYPTO", "UNUSED_OPTIONS_ERROR",
       "SESSION_EXPIRED", "NEED_CREDS", "KEV_NEGOTIATE_ERROR",
       "KEV_PENDING_ERROR", "N_KEV_EXPIRE", "KEV_EXPANSION_ERROR",
       "PKTID_INVALID", "PKTID_BACKTRACK", "PKTID_EXPIRE", "PKTID_REPLAY",
       "PKTID_TIME_BACKTRACK" >>

\* Error::name(type)
Error_name(type) ==
    IF type < N_ERRORS THEN ErrorNames[type + 1] ELSE "UNKNOWN_ERROR_TYPE"

\* some code asks for the name of the error code tab_in
Error_name_call ==
    /\ tab_op = "none"
    /\ tab_op' = "Error::name"
    /\ tab_out' = Error_name(tab_in)
    /\ UNCHANGED tab_in

\* no table function called
TablesIdle == tab_op = "none" /\ tab_in = 0 /\ tab_out = ""

(***************************************************************************)
(* MySessionStats                                                          *)
(***************************************************************************)
\* a MySessionStats::error that counts a value that is no code as the last code
stats_error_counting_unknown(errs, err) ==
    IF err < N_ERRORS THEN [errs EXCEPT ![err] = @ + 1]
    ELSE [errs EXCEPT ![N_ERRORS - 1] = @ + 1]

\* MySessionStats::error(err)
stats_error(errs, err) ==
    IF err < N_ERRORS THEN [errs EXCEPT ![err] = @ + 1] ELSE errs

(***************************************************************************)
(* Stop (openvpn/common/stop.hpp) and AsioStopScope                        *)
(* (openvpn/asio/asiostop.hpp): the first stop() posts the method of every *)
(* registered scope to the io_context; later calls do nothing.             *)
(***************************************************************************)
\* the handlers Stop::stop() posts, given the state of async_stop_local_
Stop_stop_posts == IF ~stop_called /\ stop_scope_local THEN <<"graceful_stop">> ELSE <<>>

\* Stop::stop() on async_stop_local_
Stop_stop ==
    /\ stop_called' = TRUE
    /\ io_queue' = io_queue \o Stop_stop_posts
    /\ UNCHANGED stop_scope_local

(***************************************************************************)
(* ClientConnect (openvpn/client/cliconnect.hpp), the session: stopping    *)
(* it halts it once and queues the terminal DISCONNECTED event.            *)
(***************************************************************************)
\* ClientConnect::stop() / graceful_stop(): the event queue afterwards
ClientConnect_stop_events(es) ==
    IF session = "started" THEN add_event(es, EV_DISCONNECTED) ELSE es

\* ClientConnect::stop() / graceful_stop(): the session afterwards
ClientConnect_stop_session == IF session = "started" THEN "stopped" ELSE session

(***************************************************************************)
(* ClientState                                                             *)
(***************************************************************************)
\* ClientState::is_foreign_thread_access()
is_foreign_thread_access == foreign_thread_ready

\* ClientState::trigger_async_stop_local()
trigger_async_stop_local == Stop_stop

(***************************************************************************)
(* OpenVPNClient: eval_config() and provide_creds()                        *)
(***************************************************************************)
\* the Config objects a host passes to eval_config, by the fields the code
\* reads: the profile text, protoOverride, externalPkiAlias, gremlinConfig
Configs ==
    [content : {"plain", "epki", "bad_option", "too_long"},
     protoOverride : {"", "bogus"},
     externalPkiAlias : {"", "alias"},
     gremlinConfig : {"", "gremlin"}]

\* a default-constructed EvalConfig
EvalDefault == [error |-> FALSE, message |-> "", externalPki |-> FALSE]

\* a default-constructed ClientConfigParsed
ClientConfDefault == [imported |-> FALSE, disableClientCert |-> FALSE, external_pki_alias |-> ""]

\* ParseClientConfig::parse(content, kvl, options): it throws, or it returns
\* an object whose error() is set, or one that describes the profile
ParseClientConfig_parse(content) ==
    [throws |-> content = "too_long",
     error |-> content = "bad_option",
     message |-> IF content = "bad_option" THEN "ERR_PROFILE_OPTION: option_error" ELSE "",
     externalPki |-> content = "epki"]

\* Protocol::parse(protoOverride, NO_SUFFIX) throws
Protocol_parse_throws(protoOverride) == protoOverride = "bogus"

\* OpenVPNClientHelper::parse_config(config, eval, options): the EvalConfig it
\* fills and the OptionList it leaves
parse_config(config, opts) ==
    IF config.protoOverride # "" /\ Protocol_parse_throws(config.protoOverride)
    THEN [eval |-> [EvalDefault EXCEPT !.error = TRUE,
                                       !.message = "ERR_PROFILE_GENERIC: error parsing protocol"],
          options |-> opts]
    ELSE LET cc == ParseClientConfig_parse(config.content)
         IN  IF cc.throws
             THEN [eval |-> [EvalDefault EXCEPT !.error = TRUE,
                                                !.message = "ERR_PROFILE_GENERIC: line too long"],
                   options |-> config.content]
             ELSE [eval |-> [error |-> cc.error, message |-> cc.message,
                             externalPki |-> cc.externalPki],
                   options |-> config.content]

\* OpenVPNClient::parse_extras(config, eval), built without OPENVPN_GREMLIN:
\* the clientconf it leaves and the EvalConfig it may mark as failed
parse_extras(conf, config, ev) ==
    LET imported == [conf EXCEPT !.imported = TRUE]
        aliased == IF ev.externalPki
                   THEN [imported EXCEPT !.external_pki_alias = config.externalPkiAlias]
                   ELSE imported
    IN  IF config.gremlinConfig # ""
        THEN [clientconf |-> aliased,
              eval |-> [ev EXCEPT !.error = TRUE,
                                  !.message = "client not built with OPENVPN_GREMLIN"]]
        ELSE [clientconf |-> aliased, eval |-> ev]

\* the configuration a client holds, as one value
ConfigState == [eval |-> eval, options |-> options, clientconf |-> clientconf]

\* an eval_config that stores the evaluation before it looks at eval.error
eval_config_storing_first(cs, config) ==
    LET parsed == parse_config(config, cs.options)
    IN  IF parsed.eval.error
        THEN [state |-> [cs EXCEPT !.options = parsed.options, !.eval = parsed.eval],
              ret |-> parsed.eval]
        ELSE LET extras == parse_extras(cs.clientconf, config, parsed.eval)
             IN  [state |-> [eval |-> extras.eval, options |-> parsed.options,
                             clientconf |-> extras.clientconf],
                  ret |-> extras.eval]

\* OpenVPNClient::eval_config(config): the configuration it leaves and the
\* EvalConfig it returns
eval_config_result(cs, config) ==
    LET parsed == parse_config(config, cs.options)
    IN  IF parsed.eval.error
        THEN [state |-> [cs EXCEPT !.options = parsed.options], ret |-> parsed.eval]
        ELSE LET extras == parse_extras(cs.clientconf, config, parsed.eval)
             IN  [state |-> [eval |-> extras.eval, options |-> parsed.options,
                             clientconf |-> extras.clientconf],
                  ret |-> extras.eval]

\* OpenVPNClient::eval_config(config), called before connect()
eval_config(config) ==
    /\ pc = "idle"
    /\ n_eval < MaxEval
    /\ n_eval' = n_eval + 1
    /\ LET r == eval_config_result(ConfigState, config)
       IN  /\ eval' = r.state.eval
           /\ options' = r.state.options
           /\ clientconf' = r.state.clientconf
           /\ api_status' = r.ret
    /\ api_arg' = config
    /\ api_op' = "eval_config"
    /\ api_ret' = "returned"
    /\ UNCHANGED <<connvars, sessvars, stopvars, evvars, errors, credvars,
                   stop_log, n_token_calls, n_provide>>

\* state->creds holding no ClientCreds object
NoCreds == [defined |-> FALSE, username |-> "", password |-> "", session_id_defined |-> FALSE]

\* session ids the server pushes
SessionIds == {"sid1", "sid2"}

\* the ProvideCreds objects a host passes to provide_creds, by user name,
\* password and dynamic challenge cookie
ProvideCredsInputs ==
    [username : {"user", "user2"}, password : {"pass"},
     dynamicChallengeCookie : {"", "CRV1:R,E:c2Vzcw==:dXNlcg==:pin", "garbage"}]

\* the credentials of a user who logs in with a password
ProvideCredsUser == [username |-> "user", password |-> "pass", dynamicChallengeCookie |-> ""]

\* ClientCreds::set_dynamic_challenge_cookie(cookie, username) throws: a
\* non-empty cookie that ChallengeResponse cannot parse
ClientCreds_cookie_throws(cookie) == cookie = "garbage"

\* the ClientCreds object provide_creds builds
ClientCreds_new(pcreds) ==
    [defined |-> TRUE, username |-> pcreds.username, password |-> pcreds.password,
     session_id_defined |-> FALSE]

\* a provide_creds that installs the object before it is complete
provide_creds_result_installing_first(old, pcreds) ==
    IF ClientCreds_cookie_throws(pcreds.dynamicChallengeCookie)
    THEN [creds |-> ClientCreds_new(pcreds),
          ret |-> [error |-> TRUE, message |-> "dynamic_challenge_parse_error"]]
    ELSE [creds |-> ClientCreds_new(pcreds), ret |-> [error |-> FALSE, message |-> ""]]

\* OpenVPNClient::provide_creds(creds): the stored credentials afterwards and
\* the Status returned
provide_creds_result(old, pcreds) ==
    IF ClientCreds_cookie_throws(pcreds.dynamicChallengeCookie)
    THEN [creds |-> old, ret |-> [error |-> TRUE, message |-> "dynamic_challenge_parse_error"]]
    ELSE [creds |-> ClientCreds_new(pcreds), ret |-> [error |-> FALSE, message |-> ""]]

\* OpenVPNClient::provide_creds(creds), called before connect()
provide_creds(pcreds) ==
    /\ pc = "idle"
    /\ n_provide < MaxProvide
    /\ n_provide' = n_provide + 1
    /\ LET r == provide_creds_result(creds, pcreds)
       IN  /\ creds' = r.creds
           /\ api_status' = [error |-> r.ret.error, message |-> r.ret.message,
                             externalPki |-> FALSE]
    /\ api_arg' = pcreds
    /\ api_op' = "provide_creds"
    /\ api_ret' = "returned"
    /\ UNCHANGED <<connvars, sessvars, stopvars, evvars, errors, tok, stop_log, n_token_calls,
                   eval, options, clientconf, n_eval>>

(***************************************************************************)
(* OpenVPNClient: connect()                                                *)
(***************************************************************************)
\* a default-constructed Status
StatusDefault == [error |-> FALSE, status |-> "", message |-> ""]

\* OpenVPNClient::status_from_exception(e)
status_from_exception(what) == [error |-> TRUE, status |-> "", message |-> what]

\* connect() is between its call and its return
Executing == {"setup", "wire", "run"}

\* a connect_attach that attaches whether or not the client was attached before
connect_attach_again ==
    /\ pc \in {"idle", "returned"}
    /\ n_connect < MaxConnect
    /\ n_connect' = n_connect + 1
    /\ session_started' = FALSE
    /\ attach_called' = TRUE
    /\ status' = StatusDefault
    /\ EventStateBecomes([EventState EXCEPT !.events = "attached"])
    /\ errors' = [e \in 0..(N_ERRORS - 1) |-> 0]
    /\ pc' = "setup"
    /\ UNCHANGED <<foreign_thread_ready, sessvars, stopvars, credvars, apivars>>

\* connect() -> do_connect(): connect_attach(), i.e. ClientState::attach()
connect_attach ==
    /\ pc \in {"idle", "returned"}
    /\ n_connect < MaxConnect
    /\ n_connect' = n_connect + 1
    /\ session_started' = FALSE
    /\ IF attach_called
       THEN \* attach() throws; do_connect catches with session_started false
            /\ status' = status_from_exception("attach() can only be called once")
            /\ pc' = "returned"
            /\ UNCHANGED <<attach_called, evvars, errors>>
       ELSE /\ attach_called' = TRUE
            /\ status' = StatusDefault
            /\ EventStateBecomes([EventState EXCEPT !.events = "attached"])
            /\ errors' = [e \in 0..(N_ERRORS - 1) |-> 0]
            /\ pc' = "setup"
    /\ UNCHANGED <<foreign_thread_ready, sessvars, stopvars, credvars, apivars>>

\* an external_pki_error that queues the EpkiError event first
external_pki_error_events_error_first(es, req_error, invalidAlias) ==
    IF req_error
    THEN LET first == add_event(es, EV_EPKI_ERROR)
         IN  IF invalidAlias THEN add_event(first, EV_EPKI_INVALID_ALIAS) ELSE first
    ELSE es

\* OpenVPNClient::external_pki_error(req, err_type): the events it queues
external_pki_error_events(es, req_error, invalidAlias) ==
    IF req_error
    THEN add_event(IF invalidAlias THEN add_event(es, EV_EPKI_INVALID_ALIAS) ELSE es,
                   EV_EPKI_ERROR)
    ELSE es

\* OpenVPNClient::external_pki_error(req, err_type)
external_pki_error(req_error, invalidAlias, err_type) ==
    /\ EventStateBecomes(external_pki_error_events(EventState, req_error, invalidAlias))
    /\ errors' = IF req_error THEN stats_error(errors, err_type) ELSE errors
    /\ dont_restart' = IF req_error /\ session # "null" THEN TRUE ELSE dont_restart

\* connect_setup: state->eval.externalPki && !state->clientconf.disableClientCert
EpkiWanted == eval.externalPki /\ ~clientconf.disableClientCert

\* connect_setup, external PKI, certificate request failed:
\*   external_pki_error(req, Error::EPKI_CERT_ERROR); return;
connect_setup_epki_cert_error(invalidAlias) ==
    /\ pc = "setup"
    /\ EpkiWanted
    /\ clientconf.external_pki_alias # ""
    /\ Len(added) + 2 <= MaxEvents
    /\ external_pki_error(TRUE, invalidAlias, EPKI_CERT_ERROR)
    /\ pc' = "run"
    /\ UNCHANGED <<n_connect, status, session_started, attach_called, foreign_thread_ready,
                   session, graceful_stop_calls, session_stop_calls,
                   stopvars, credvars, apivars>>

\* connect_setup, external PKI without an alias:
\*   status.error = true; status.message = "Missing External PKI alias"; return;
connect_setup_epki_no_alias ==
    /\ pc = "setup"
    /\ EpkiWanted
    /\ clientconf.external_pki_alias = ""
    /\ status' = [status EXCEPT !.error = TRUE, !.message = "Missing External PKI alias"]
    /\ pc' = "run"
    /\ UNCHANGED <<n_connect, session_started, attach_called, foreign_thread_ready,
                   sessvars, stopvars, evvars, errors, credvars, apivars>>

\* a do_connect whose catch block stops the session whether or not it was
\* started
connect_setup_throw_early_stopping(session_made) ==
    /\ pc = "setup"
    /\ EpkiWanted => clientconf.external_pki_alias # ""
    /\ session' = IF session_made THEN "created" ELSE session
    /\ session_stop_calls' = session_stop_calls + 1
    /\ status' = status_from_exception("option_error")
    /\ pc' = "returned"
    /\ UNCHANGED <<n_connect, session_started, attach_called, foreign_thread_ready,
                   graceful_stop_calls, dont_restart,
                   stopvars, evvars, errors, credvars, apivars>>

\* connect_setup throws before the session is started (with or without the
\* session object made); do_connect catches with session_started false
connect_setup_throw_early(session_made) ==
    /\ pc = "setup"
    /\ EpkiWanted => clientconf.external_pki_alias # ""
    /\ session' = IF session_made THEN "created" ELSE session
    /\ status' = status_from_exception("option_error")
    /\ pc' = "returned"
    /\ UNCHANGED <<n_connect, session_started, attach_called, foreign_thread_ready,
                   graceful_stop_calls, session_stop_calls, dont_restart,
                   stopvars, evvars, errors, credvars, apivars>>

\* connect_setup from the session object to state->session->start();
\* session_started = true; with the clock tick scheduled if one is configured
connect_setup_start ==
    /\ pc = "setup"
    /\ EpkiWanted => clientconf.external_pki_alias # ""
    /\ session' = "started"
    /\ clock_tick' = IF clockTickMS # 0 THEN "pending" ELSE clock_tick
    /\ session_started' = TRUE
    /\ pc' = "wire"
    /\ UNCHANGED <<n_connect, status, attach_called, foreign_thread_ready,
                   graceful_stop_calls, session_stop_calls, dont_restart,
                   stopvars, events, added, dropped, host_calls, last_connected,
                   errors, credvars, apivars>>

\* ClientState::setup_async_stop_scopes(): the local scope runs
\* session->graceful_stop() on the io_context; the global Stop is
\* get_async_stop(), which is nullptr
setup_async_stop_scopes == stop_scope_local' = TRUE

\* ClientState::enable_foreign_thread_access()
enable_foreign_thread_access == foreign_thread_ready' = TRUE

\* a connect_setup that enables foreign-thread access without wiring the
\* async-stop scopes
connect_setup_finish_unwired ==
    /\ pc = "wire"
    /\ enable_foreign_thread_access
    /\ pc' = "run"
    /\ UNCHANGED <<n_connect, status, session_started, attach_called,
                   sessvars, stopvars, evvars, errors, credvars, apivars>>

\* connect_setup from setup_async_stop_scopes() to its end
connect_setup_finish ==
    /\ pc = "wire"
    /\ setup_async_stop_scopes
    /\ enable_foreign_thread_access
    /\ pc' = "run"
    /\ UNCHANGED <<n_connect, status, session_started, attach_called,
                   sessvars, stop_called, io_queue, evvars, errors, credvars, apivars>>

\* OpenVPNClient::connect_session_stop(): session->stop(), io_context->poll()
connect_session_stop ==
    /\ session' = ClientConnect_stop_session
    /\ session_stop_calls' = session_stop_calls + 1
    /\ EventStateBecomes(MyClockTick_handler(ClientConnect_stop_events(EventState)))
    /\ io_queue' = <<>>

\* connect_setup throws after session_started = true (connect_pre_run of a
\* derived class); do_connect catches and calls connect_session_stop()
connect_setup_throw_late ==
    /\ pc = "wire"
    /\ setup_async_stop_scopes
    /\ connect_session_stop
    /\ status' = status_from_exception("connect_pre_run")
    /\ pc' = "returned"
    /\ UNCHANGED <<n_connect, session_started, attach_called, foreign_thread_ready,
                   graceful_stop_calls, dont_restart, stop_called, errors, credvars, apivars>>

\* connect_run(): the io_context runs a posted handler
\* (AsioStopScope's: session->graceful_stop())
connect_run_handler ==
    /\ pc = "run"
    /\ io_queue # <<>>
    /\ Head(io_queue) = "graceful_stop"
    /\ io_queue' = Tail(io_queue)
    /\ graceful_stop_calls' = graceful_stop_calls + 1
    /\ session' = ClientConnect_stop_session
    /\ EventStateBecomes(ClientConnect_stop_events(EventState))
    /\ UNCHANGED <<connvars, session_stop_calls, dont_restart, stop_called, stop_scope_local,
                   errors, credvars, apivars>>

\* connect_run(): the session, running on the io_context, queues an event
session_add_event(event) ==
    /\ pc = "run"
    /\ session = "started"
    /\ Len(added) + 1 < MaxEvents
    /\ EventStateBecomes(add_event(EventState, event))
    /\ UNCHANGED <<connvars, sessvars, stopvars, errors, credvars, apivars>>

\* connect_run(): the session ends by itself (fatal error, server halt)
session_self_stop ==
    /\ pc = "run"
    /\ session = "started"
    /\ session' = ClientConnect_stop_session
    /\ EventStateBecomes(ClientConnect_stop_events(EventState))
    /\ UNCHANGED <<connvars, graceful_stop_calls, session_stop_calls, dont_restart,
                   stopvars, errors, credvars, apivars>>

\* connect_run(): the session stores the session token the server pushed
\* (ClientCreds::set_session_id)
session_set_session_id(sid) ==
    /\ pc = "run"
    /\ session = "started"
    /\ creds.defined
    /\ creds' = [creds EXCEPT !.password = sid, !.session_id_defined = TRUE]
    /\ UNCHANGED <<connvars, sessvars, stopvars, evvars, errors, tok, apivars>>

\* connect_run() returns when the io_context has run out of work, and
\* do_connect returns status
connect_run_return ==
    /\ pc = "run"
    /\ io_queue = <<>>
    /\ session # "started"
    /\ clock_tick \in {"none", "idle"}
    /\ pc' = "returned"
    /\ UNCHANGED <<n_connect, status, session_started, attach_called, foreign_thread_ready,
                   sessvars, stopvars, evvars, errors, credvars, apivars>>

\* connect_run(): the io_context finds that the period of the clock tick has
\* elapsed and queues its handler with success, behind the handlers that
\* are ready already
clock_tick_expire ==
    /\ pc = "run"
    /\ clock_tick = "pending"
    /\ Ticks < MaxTicks
    /\ clock_tick' = "ready"
    /\ UNCHANGED <<connvars, sessvars, stopvars, events, added, dropped, host_calls,
                   last_connected, errors, credvars, apivars>>

\* connect_run(): the io_context runs the handler of the clock tick
clock_tick_handler ==
    /\ pc = "run"
    /\ clock_tick \in {"ready", "aborted"}
    /\ EventStateBecomes(MyClockTick_handler(EventState))
    /\ UNCHANGED <<connvars, sessvars, stopvars, errors, credvars, apivars>>

(***************************************************************************)
(* OpenVPNClient: methods called by the host, from any thread              *)
(***************************************************************************)
\* a stop() that reaches for the session at each call instead of going
\* through the Stop object
stop_posting_each_time ==
    /\ pc \in Executing
    /\ Len(stop_log) < MaxStopCalls
    /\ stop_log' = Append(stop_log, pc)
    /\ IF is_foreign_thread_access
       THEN io_queue' = Append(io_queue, "graceful_stop") /\ UNCHANGED <<stop_called, stop_scope_local>>
       ELSE UNCHANGED stopvars
    /\ api_op' = "stop"
    /\ api_ret' = "void"
    /\ UNCHANGED <<connvars, sessvars, evvars, errors, credvars, n_token_calls>>

\* OpenVPNClient::stop(), called while connect() is running
stop ==
    /\ pc \in Executing
    /\ Len(stop_log) < MaxStopCalls
    /\ stop_log' = Append(stop_log, pc)
    /\ IF is_foreign_thread_access
       THEN trigger_async_stop_local
       ELSE UNCHANGED stopvars
    /\ api_op' = "stop"
    /\ api_ret' = "void"
    /\ UNCHANGED <<connvars, sessvars, evvars, errors, credvars, n_token_calls>>

\* a session_token that copies the user name before it knows that a session
\* id is there
session_token_early_write ==
    /\ pc # "destroyed"
    /\ n_token_calls < MaxTokenCalls
    /\ n_token_calls' = n_token_calls + 1
    /\ IF is_foreign_thread_access /\ creds.defined
       THEN /\ tok' = IF creds.session_id_defined
                      THEN [username |-> creds.username, session_id |-> creds.password]
                      ELSE [tok EXCEPT !.username = creds.username]
            /\ api_ret' = IF creds.session_id_defined THEN "true" ELSE "false"
       ELSE /\ api_ret' = "false"
            /\ UNCHANGED tok
    /\ api_op' = "session_token"
    /\ UNCHANGED <<connvars, sessvars, stopvars, evvars, errors, creds, stop_log>>

\* OpenVPNClient::session_token(tok)
session_token ==
    /\ pc # "destroyed"
    /\ n_token_calls < MaxTokenCalls
    /\ n_token_calls' = n_token_calls + 1
    /\ IF is_foreign_thread_access /\ creds.defined /\ creds.session_id_defined
       THEN /\ tok' = [username |-> creds.username, session_id |-> creds.password]
            /\ api_ret' = "true"
       ELSE /\ api_ret' = "false"
            /\ UNCHANGED tok
    /\ api_op' = "session_token"
    /\ UNCHANGED <<connvars, sessvars, stopvars, evvars, errors, creds, stop_log>>

\* the methods that hand a request to the session
SessionCalls == {"pause", "resume", "reconnect", "post_cc_msg"}

\* OpenVPNClient::pause(reason), resume(), reconnect(seconds) and
\* post_cc_msg(msg): session->thread_safe_<op>() if foreign-thread access is
\* enabled and the session exists
session_call(op) ==
    /\ pc # "destroyed"
    /\ n_calls < MaxCalls
    /\ n_calls' = n_calls + 1
    /\ posted' = IF is_foreign_thread_access /\ session # "null"
                 THEN Append(posted, op) ELSE posted
    /\ api_op' = op
    /\ api_ret' = "void"
    /\ UNCHANGED <<connvars, sessvars, stopvars, evvars, errors, credvars,
                   stop_log, n_token_calls>>
    /\ UNCHANGED <<clockTickMS, sign_req, sig, sign_ret, n_sign>>

\* the signatures a host's external_pki_sign_request leaves in req.sig
Signatures == {"", "c2lnbmVk"}

\* OpenVPNClient::sign(alias, data, sig, ...), called by the TLS layer of the
\* running session; the host's external_pki_sign_request sets req.error,
\* req.invalidAlias and req.sig
sign(req_error, invalidAlias, req_sig) ==
    /\ pc = "run"
    /\ session = "started"
    /\ EpkiWanted
    /\ n_sign < MaxSign
    /\ Len(added) + 2 <= MaxEvents
    /\ n_sign' = n_sign + 1
    /\ sign_req' = [error |-> req_error, invalidAlias |-> invalidAlias, sig |-> req_sig]
    /\ IF ~req_error
       THEN /\ sig' = req_sig
            /\ sign_ret' = "true"
            /\ UNCHANGED <<evvars, errors, dont_restart>>
       ELSE /\ external_pki_error(req_error, invalidAlias, EPKI_SIGN_ERROR)
            /\ sign_ret' = "false"
            /\ UNCHANGED sig
    /\ UNCHANGED <<connvars, session, graceful_stop_calls, session_stop_calls,
                   stopvars, credvars, apivars>>
    /\ UNCHANGED <<clockTickMS, posted, n_calls>>

\* a host that configured no clock tick and has called nothing yet
HostFresh ==
    /\ clockTickMS = 0
    /\ posted = <<>>
    /\ n_calls = 0
    /\ sign_req = [error |-> FALSE, invalidAlias |-> FALSE, sig |-> ""]
    /\ sig = ""
    /\ sign_ret = "none"
    /\ n_sign = 0

(***************************************************************************)
(* OpenVPNClient: connection_info() and the stats API, and the session     *)
(* recording errors and traffic in MySessionStats                          *)
(***************************************************************************)
\* SessionStats::N_STATS (openvpn/log/sessionstats.hpp)
N_STATS == 8
\* SessionStats::BYTES_IN
BYTES_IN == 0

\* SessionStats::stat_name: the names of the N_STATS traffic counters
StatNames ==
    << "BYTES_IN", "BYTES_OUT", "PACKETS_IN", "PACKETS_OUT",
       "TUN_BYTES_IN", "TUN_BYTES_OUT", "TUN_PACKETS_IN", "TUN_PACKETS_OUT" >>

\* the values of size_t are modelled as 0 .. SizeRange - 1; on the build
\* targets size_t is 32 or 64 bits wide, wider than the integers of the model
SizeRange == 2 ^ 30

\* conversion of an int argument to the size_t parameter of combined_name
\* and combined_value
to_size_t(i) == i % SizeRange

\* MySessionStats::combined_n()
combined_n == N_STATS + N_ERRORS

\* MySessionStats::combined_name(index)
combined_name(index) ==
    IF index < combined_n
    THEN IF index < N_STATS THEN StatNames[index + 1] ELSE Error_name(index - N_STATS)
    ELSE ""

\* MySessionStats::combined_value(index)
combined_value(index) ==
    IF index < combined_n
    THEN IF index < N_STATS THEN stat_values[index] ELSE errors[index - N_STATS]
    ELSE 0

\* ClientState::stats holds a MySessionStats object (made by attach())
stats_exists == attach_called

\* OpenVPNClient::stats_name(index)
stats_name_result(index) == combined_name(to_size_t(index))

\* OpenVPNClient::stats_value(index)
stats_value_result(index) ==
    IF is_foreign_thread_access /\ stats_exists
    THEN combined_value(to_size_t(index))
    ELSE 0

\* a stats_bundle that does not wait for connect setup to complete
stats_bundle_result_ungated ==
    [i \in 1..combined_n |-> IF stats_exists THEN combined_value(i - 1) ELSE 0]

\* OpenVPNClient::stats_bundle()
stats_bundle_result ==
    IF is_foreign_thread_access
    THEN [i \in 1..combined_n |-> IF stats_exists THEN combined_value(i - 1) ELSE 0]
    ELSE [i \in 1..combined_n |-> 0]

\* a default-constructed ConnectionInfo
ConnectionInfoDefault == [defined |-> FALSE, user |-> "", serverHost |-> "", serverIp |-> ""]

\* MyClientEvents::get_connection_info(ci)
get_connection_info(connected) ==
    IF connected # NoEvent /\ connected.id = "CONNECTED"
    THEN [defined |-> TRUE, user |-> connected.user,
          serverHost |-> connected.server_host, serverIp |-> connected.server_ip]
    ELSE ConnectionInfoDefault

\* OpenVPNClient::connection_info()
connection_info_result ==
    IF is_foreign_thread_access /\ events # "null"
    THEN get_connection_info(last_connected)
    ELSE ConnectionInfoDefault

\* the int arguments a host passes to stats_name and stats_value: in range,
\* the two ends, just outside, and negative
StatIndexInputs == {0, N_STATS + EPKI_CERT_ERROR, combined_n - 1, combined_n, -1}

\* a host thread asks for something (it can at any time while the client
\* object exists); everything but the answer is left alone, and of the
\* answers only the last is kept
Observe(op, arg) ==
    /\ pc # "destroyed"
    /\ n_obs < MaxObserve
    /\ n_obs' = n_obs + 1
    /\ obs_op' = op
    /\ obs_arg' = arg
    /\ UNCHANGED <<clivars, stat_values, n_error_calls, last_err>>

\* a host thread calls connection_info()
connection_info ==
    /\ Observe("connection_info", 0)
    /\ obs_ci' = connection_info_result
    /\ obs_name' = "" /\ obs_value' = 0 /\ obs_bundle' = <<>>

\* a host thread calls stats_name(index)
stats_name(index) ==
    /\ Observe("stats_name", index)
    /\ obs_name' = stats_name_result(index)
    /\ obs_ci' = ConnectionInfoDefault /\ obs_value' = 0 /\ obs_bundle' = <<>>

\* a host thread calls stats_value(index)
stats_value(index) ==
    /\ Observe("stats_value", index)
    /\ obs_value' = stats_value_result(index)
    /\ obs_ci' = ConnectionInfoDefault /\ obs_name' = "" /\ obs_bundle' = <<>>

\* a host thread calls stats_bundle()
stats_bundle ==
    /\ Observe("stats_bundle", 0)
    /\ obs_bundle' = stats_bundle_result
    /\ obs_ci' = ConnectionInfoDefault /\ obs_name' = "" /\ obs_value' = 0

\* the error codes the session records: a per-packet error (REPLAY_ERROR),
\* the last code, and a value that is no code
ErrorInputs == {7, N_ERRORS - 1, N_ERRORS}

\* the session, once attached, records an error: stats->error(err)
session_stats_error(err) ==
    /\ pc \in Executing
    /\ n_error_calls < MaxErrorCalls
    /\ n_error_calls' = n_error_calls + 1
    /\ last_err' = err
    /\ errors' = stats_error(errors, err)
    /\ UNCHANGED <<connvars, sessvars, stopvars, evvars, credvars, apivars>>
    /\ UNCHANGED <<stat_values, n_obs, obs_op, obs_arg, obs_ci, obs_name, obs_value, obs_bundle>>

\* the running session counts received bytes: SessionStats::inc_stat(BYTES_IN, 1)
session_inc_stat ==
    /\ pc = "run"
    /\ session = "started"
    /\ stat_values[BYTES_IN] < MaxStat
    /\ stat_values' = [stat_values EXCEPT ![BYTES_IN] = @ + 1]
    /\ UNCHANGED <<clivars, n_error_calls, last_err>>
    /\ UNCHANGED <<n_obs, obs_op, obs_arg, obs_ci, obs_name, obs_value, obs_bundle>>

\* nothing recorded and nothing asked yet
ObserveFresh ==
    /\ stat_values = [i \in 0..(N_STATS - 1) |-> 0]
    /\ n_error_calls = 0
    /\ last_err = 0
    /\ n_obs = 0
    /\ obs_op = "none"
    /\ obs_arg = 0
    /\ obs_ci = ConnectionInfoDefault
    /\ obs_name = ""
    /\ obs_value = 0
    /\ obs_bundle = <<>>

\* OpenVPNClient::~OpenVPNClient(): ~ClientState() detaches the stats and the
\* event queue from the client and drops the session
client_destructor ==
    /\ pc \in {"idle", "returned"}
    /\ pc' = "destroyed"
    /\ events' = IF events = "attached" THEN "detached" ELSE events
    /\ session' = "null"
    /\ stop_scope_local' = FALSE
    /\ UNCHANGED <<n_connect, status, session_started, attach_called, foreign_thread_ready,
                   graceful_stop_calls, session_stop_calls, dont_restart,
                   stop_called, io_queue, added, dropped, host_calls, last_connected,
                   clock_tick, errors, credvars, apivars>>

\* an event is queued on a MyClientEvents that outlived its client
late_add_event(event) ==
    /\ events = "detached"
    /\ dropped < MaxDropped
    /\ EventStateBecomes(add_event(EventState, event))
    /\ UNCHANGED <<connvars, sessvars, stopvars, errors, credvars, apivars>>

\* the client after OpenVPNClient::OpenVPNClient(): a fresh ClientState
ClientConstructed ==
    /\ pc = "idle"
    /\ n_connect = 0
    /\ status = StatusDefault
    /\ session_started = FALSE
    /\ attach_called = FALSE
    /\ foreign_thread_ready = FALSE
    /\ session = "null"
    /\ graceful_stop_calls = 0
    /\ session_stop_calls = 0
    /\ dont_restart = FALSE
    /\ stop_called = FALSE
    /\ stop_scope_local = FALSE
    /\ io_queue = <<>>
    /\ events = "null"
    /\ added = <<>>
    /\ dropped = 0
    /\ host_calls = <<>>
    /\ last_connected = NoEvent
    /\ clock_tick = "none"
    /\ errors = [e \in 0..(N_ERRORS - 1) |-> 0]
    /\ creds = NoCreds
    /\ tok = [username |-> "", session_id |-> ""]
    /\ api_op = "none"
    /\ api_ret = "void"
    /\ stop_log = <<>>
    /\ n_token_calls = 0

\* the configuration of a fresh ClientState, before any call
ConfigFresh ==
    /\ eval = EvalDefault
    /\ options = ""
    /\ clientconf = ClientConfDefault
    /\ n_eval = 0
    /\ n_provide = 0
    /\ api_arg = [none |-> TRUE]
    /\ api_status = EvalDefault

(***************************************************************************)
(* Packet-ID service: the replay window of an inbound key                  *)
(* (PacketIDReceive, openvpn/crypto/packet_id.hpp)                         *)
(***************************************************************************)
\* the ids a peer can send under one key
PacketIds == 1..MaxPktId

\* the larger of two numbers
Larger(a, b) == IF a >= b THEN a ELSE b

\* the id has fallen out of the window: id <= high - width
PacketID_expired(high, id) == id <= high - ReplayWidth

\* the window after it has admitted id: the high-water mark moves up to id if
\* id is above it, the bitmap shifts with it and loses the bits that fall out
\* (all of them when the shift is wider than the window), and the bit of id
\* is set
PacketID_admit(high, seen, id) ==
    LET new_high == Larger(high, id)
    IN  [high |-> new_high,
         seen |-> {i \in seen \cup {id} : i > new_high - ReplayWidth}]

\* an admit that clears the bitmap whenever the window moves
PacketID_accept_clearing_on_advance(high, seen, id) ==
    IF PacketID_expired(high, id)
    THEN [ok |-> FALSE, error |-> "PKTID_EXPIRE", high |-> high, seen |-> seen]
    ELSE IF id \in seen
    THEN [ok |-> FALSE, error |-> "PKTID_REPLAY", high |-> high, seen |-> seen]
    ELSE IF id > high
    THEN [ok |-> TRUE, error |-> "", high |-> id, seen |-> {id}]
    ELSE [ok |-> TRUE, error |-> "", high |-> high, seen |-> seen \cup {id}]

\* accept(id): whether the id is admitted, the error if it is not, and the
\* window afterwards
PacketID_accept(high, seen, id) ==
    IF PacketID_expired(high, id)
    THEN [ok |-> FALSE, error |-> "PKTID_EXPIRE", high |-> high, seen |-> seen]
    ELSE IF id \in seen
    THEN [ok |-> FALSE, error |-> "PKTID_REPLAY", high |-> high, seen |-> seen]
    ELSE LET w == PacketID_admit(high, seen, id)
         IN  [ok |-> TRUE, error |-> "", high |-> w.high, seen |-> w.seen]

\* an inbound data packet with packet id id reaches the replay check
replay_check(id) ==
    /\ LET r == PacketID_accept(rp_high, rp_seen, id)
       IN  /\ rp_high' = r.high
           /\ rp_seen' = r.seen
           /\ rp_result' = IF r.ok THEN "accepted" ELSE r.error
           /\ rp_count' = IF r.ok THEN [rp_count EXCEPT ![id] = @ + 1] ELSE rp_count
    /\ rp_in' = id

\* a fresh replay window: nothing seen
ReplayFresh ==
    /\ rp_high = 0
    /\ rp_seen = {}
    /\ rp_in = 0
    /\ rp_result = "none"
    /\ rp_count = [id \in PacketIds |-> 0]

(***************************************************************************)
(* Reliable layer, inbound side: receive(record) with its reorder buffer   *)
(* (ReliableRecv, openvpn/reliable/relrecv.hpp)                            *)
(***************************************************************************)
\* the reliable packet ids a peer can send
RelIds == 0..MaxRelId

\* the session ids a record can declare as its sender; "peer" is the one
\* learnt from HARD_RESET_SERVER
RelSids == {"peer", "other"}

\* the ids from n on that the reorder buffer holds without a gap
RECURSIVE RelRun(_, _)
RelRun(buf, n) == IF n \in buf THEN <<n>> \o RelRun(buf \ {n}, n + 1) ELSE <<>>

\* a receive that hands a record to the TLS adapter as it arrives
ReliableRecv_receive_unordered(next, buf, sid, id) ==
    IF sid # "peer"
    THEN [ack |-> FALSE, what |-> "dropped", deliver |-> <<>>, next |-> next, buf |-> buf]
    ELSE IF id >= next + RelWindow
    THEN [ack |-> FALSE, what |-> "dropped", deliver |-> <<>>, next |-> next, buf |-> buf]
    ELSE IF id < next \/ id \in buf
    THEN [ack |-> TRUE, what |-> "duplicate", deliver |-> <<>>, next |-> next, buf |-> buf]
    ELSE [ack |-> TRUE, what |-> "received", deliver |-> <<id>>,
          next |-> IF id = next THEN next + 1 ELSE next,
          buf |-> IF id = next THEN buf ELSE buf \cup {id}]

\* receive(record): a record of another SID is dropped silently; one beyond
\* the receive window is dropped without ACK; one already received is ACKed
\* and not delivered again; any other is ACKed and held, and the records that
\* are now in sequence are delivered
ReliableRecv_receive(next, buf, sid, id) ==
    IF sid # "peer"
    THEN [ack |-> FALSE, what |-> "dropped", deliver |-> <<>>, next |-> next, buf |-> buf]
    ELSE IF id >= next + RelWindow
    THEN [ack |-> FALSE, what |-> "dropped", deliver |-> <<>>, next |-> next, buf |-> buf]
    ELSE IF id < next \/ id \in buf
    THEN [ack |-> TRUE, what |-> "duplicate", deliver |-> <<>>, next |-> next, buf |-> buf]
    ELSE LET run == RelRun(buf \cup {id}, next)
         IN  [ack |-> TRUE, what |-> "received", deliver |-> run,
              next |-> next + Len(run),
              buf |-> {i \in buf \cup {id} : i >= next + Len(run)}]

\* a control record with reliable packet id id, declaring sender sid, arrives
reliable_receive(sid, id) ==
    /\ rel_n < MaxRecords
    /\ rel_n' = rel_n + 1
    /\ LET r == ReliableRecv_receive(rel_next, rel_buf, sid, id)
       IN  /\ rel_next' = r.next
           /\ rel_buf' = r.buf
           /\ rel_delivered' = rel_delivered \o r.deliver
           /\ rel_acks' = IF r.ack THEN Append(rel_acks, id) ELSE rel_acks
           /\ rel_what' = r.what
    /\ rel_in' = id
    /\ rel_sid' = sid

\* a fresh reliable layer: the first record expected is number 0
ReliableFresh ==
    /\ rel_n = 0
    /\ rel_next = 0
    /\ rel_buf = {}
    /\ rel_delivered = <<>>
    /\ rel_acks = <<>>
    /\ rel_what = "none"
    /\ rel_in = 0
    /\ rel_sid = "none"

(***************************************************************************)
(* Key slots: the lifecycle of the data-channel keys of a session          *)
(* (ProtoContext::KeyContext, openvpn/ssl/proto.hpp)                       *)
(***************************************************************************)
\* the key ids a session hands out
KeyIds == 0..MaxKeyId

\* the lifecycle of a slot; FREE is a key id with no slot
SlotStates == {"FREE", "NEGOTIATING", "ACTIVE_SECONDARY", "ACTIVE_PRIMARY", "EXPIRING", "DEAD"}

\* the key ids whose slot is in state st
SlotsIn(sl, st) == {k \in KeyIds : sl[k] = st}

\* the key ids the initiator may assign: those not currently installed
KeySlots_free_ids(sl) == {k \in KeyIds : sl[k] \in {"FREE", "DEAD"}}

\* a new key is negotiated under key id k
KeySlots_negotiate(sl, k) == [sl EXCEPT ![k] = "NEGOTIATING"]

\* KEY_METHOD_2 has completed: the negotiating slot becomes the secondary;
\* a secondary that was never promoted is replaced by it
KeySlots_key_method_2(sl) ==
    [k \in KeyIds |->
        IF sl[k] = "NEGOTIATING" THEN "ACTIVE_SECONDARY"
        ELSE IF sl[k] = "ACTIVE_SECONDARY" THEN "DEAD"
        ELSE sl[k]]

\* a promotion that leaves the old primary in place
KeySlots_promote_keeping_primary(sl, k) ==
    [sl EXCEPT ![k] = "ACTIVE_PRIMARY"]

\* the first valid inbound data packet under key id k: slot k becomes the
\* primary and, in the same step, the old primary starts to expire
KeySlots_promote(sl, k) ==
    [j \in KeyIds |->
        IF j = k THEN "ACTIVE_PRIMARY"
        ELSE IF sl[j] = "ACTIVE_PRIMARY" THEN "EXPIRING"
        ELSE sl[j]]

\* the grace of the expiring slots is over
KeySlots_expire(sl) == [k \in KeyIds |-> IF sl[k] = "EXPIRING" THEN "DEAD" ELSE sl[k]]

\* every slot is released
KeySlots_release(sl) == [k \in KeyIds |-> IF sl[k] = "FREE" THEN "FREE" ELSE "DEAD"]

(***************************************************************************)
(* Session: state machine, timers and error bus                            *)
(* (ClientProto::Session, openvpn/client/cliproto.hpp)                     *)
(***************************************************************************)
SessionStates == {"INITIAL", "RESET_SENT", "AUTH_WAIT", "GET_CONFIG", "ACTIVE",
                  "RENEGOTIATING", "STOPPING", "DEAD"}

\* the timers a session owns
Timers == {"handshake", "keepalive_send", "keepalive_receive", "inactivity",
           "renegotiation", "primary_expire"}

\* the timers that run while the session is ACTIVE
SteadyTimers == {"keepalive_send", "keepalive_receive", "inactivity", "renegotiation"}

\* the error a timer raises when it expires
TimerError(t) ==
    CASE t = "handshake" -> "HANDSHAKE_TIMEOUT"
      [] t = "keepalive_receive" -> "KEEPALIVE_TIMEOUT"
      [] t = "inactivity" -> "INACTIVE_TIMEOUT"

\* per-packet errors, which are counted and suppressed
PacketErrors == {"DECRYPT_ERROR", "HMAC_ERROR"}

\* errors that are always fatal for the session
FatalErrors == {"SSL_ERROR", "CC_ERROR"}

\* the session as one value
SessionState ==
    [state |-> sess_state, timers |-> timers, bus |-> bus, sealed |-> sealed]

\* an error handler that seals the session and leaves the timers armed
Session_error_timers_kept(s, code, fatal) ==
    IF fatal /\ ~s.sealed
    THEN [state |-> "STOPPING", timers |-> s.timers,
          bus |-> Append(s.bus, [code |-> code, fatal |-> fatal]), sealed |-> TRUE]
    ELSE [s EXCEPT !.bus = Append(s.bus, [code |-> code, fatal |-> fatal])]

\* an error event is pushed onto the bus; the first fatal one seals the
\* session: every timer is cancelled and the session starts to stop
Session_error(s, code, fatal) ==
    IF fatal /\ ~s.sealed
    THEN [state |-> "STOPPING", timers |-> {},
          bus |-> Append(s.bus, [code |-> code, fatal |-> fatal]), sealed |-> TRUE]
    ELSE [s EXCEPT !.bus = Append(s.bus, [code |-> code, fatal |-> fatal])]

SessionBecomes(s) ==
    /\ sess_state' = s.state
    /\ timers' = s.timers
    /\ bus' = s.bus
    /\ sealed' = s.sealed

\* the session is running: neither sealed nor stopping
Running == ~sealed /\ sess_state \notin {"STOPPING", "DEAD"}

\* start(): HARD_RESET_CLIENT is sent and the handshake timer starts
session_start ==
    /\ Running /\ sess_state = "INITIAL"
    /\ sess_state' = "RESET_SENT"
    /\ timers' = timers \cup {"handshake"}
    /\ sess_op' = "start"
    /\ UNCHANGED <<slots, bus, sealed>>

\* HARD_RESET_SERVER arrives: the TLS handshake of the first key begins
session_hard_reset_server(k) ==
    /\ Running /\ sess_state = "RESET_SENT"
    /\ k \in KeySlots_free_ids(slots)
    /\ slots' = KeySlots_negotiate(slots, k)
    /\ sess_state' = "AUTH_WAIT"
    /\ sess_op' = "hard_reset_server"
    /\ UNCHANGED <<timers, bus, sealed>>

\* KEY_METHOD_2 completes for the negotiating slot
session_key_method_2 ==
    /\ Running /\ sess_state \in {"AUTH_WAIT", "RENEGOTIATING"}
    /\ SlotsIn(slots, "NEGOTIATING") # {}
    /\ slots' = KeySlots_key_method_2(slots)
    /\ sess_state' = IF sess_state = "AUTH_WAIT" THEN "GET_CONFIG" ELSE "ACTIVE"
    /\ timers' = IF sess_state = "AUTH_WAIT" THEN timers ELSE timers \ {"handshake"}
    /\ sess_op' = "key_method_2"
    /\ UNCHANGED <<bus, sealed>>

\* the pushed configuration arrives: the session is ACTIVE, the handshake
\* timer stops and the steady-state timers start
session_push_reply ==
    /\ Running /\ sess_state = "GET_CONFIG"
    /\ sess_state' = "ACTIVE"
    /\ timers' = (timers \ {"handshake"}) \cup SteadyTimers
    /\ sess_op' = "push_reply"
    /\ UNCHANGED <<slots, bus, sealed>>

\* a renegotiation trigger fires: SOFT_RESET, a new key id is negotiated
session_renegotiate(k) ==
    /\ Running /\ sess_state = "ACTIVE"
    /\ "renegotiation" \in timers
    /\ SlotsIn(slots, "NEGOTIATING") = {}
    /\ k \in KeySlots_free_ids(slots)
    /\ slots' = KeySlots_negotiate(slots, k)
    /\ sess_state' = "RENEGOTIATING"
    /\ timers' = timers \cup {"handshake"}
    /\ sess_op' = "renegotiate"
    /\ UNCHANGED <<bus, sealed>>

\* the first valid inbound data packet under key id k
session_first_data(k) ==
    /\ Running /\ sess_state \in {"ACTIVE", "RENEGOTIATING"}
    /\ slots[k] = "ACTIVE_SECONDARY"
    /\ slots' = KeySlots_promote(slots, k)
    /\ timers' = IF SlotsIn(slots, "ACTIVE_PRIMARY") # {}
                 THEN timers \cup {"primary_expire"} ELSE timers
    /\ sess_op' = "first_data"
    /\ UNCHANGED <<sess_state, bus, sealed>>

\* the primary-expire timer fires: the expiring slot is retired
session_primary_expire ==
    /\ Running
    /\ "primary_expire" \in timers
    /\ slots' = KeySlots_expire(slots)
    /\ timers' = timers \ {"primary_expire"}
    /\ sess_op' = "primary_expire"
    /\ UNCHANGED <<sess_state, bus, sealed>>

\* the handshake, keepalive-receive or inactivity timer expires
session_timer_expired(t) ==
    /\ Len(bus) < MaxBusEvents
    /\ t \in timers
    /\ SessionBecomes(Session_error(SessionState, TimerError(t), TRUE))
    /\ sess_op' = "timer_expired"
    /\ UNCHANGED slots

\* a component pushes an error event onto the bus
session_error(code, fatal) ==
    /\ Len(bus) < MaxBusEvents
    /\ sess_state # "DEAD"
    /\ SessionBecomes(Session_error(SessionState, code, fatal))
    /\ sess_op' = "error"
    /\ UNCHANGED slots

\* stop(): the timers are cancelled and the session starts to stop
session_stop ==
    /\ Running
    /\ sess_state' = "STOPPING"
    /\ timers' = {}
    /\ sess_op' = "stop"
    /\ UNCHANGED <<slots, bus, sealed>>

\* tear-down: the slots are released and the session is DEAD
session_tear_down ==
    /\ sess_state = "STOPPING"
    /\ sess_state' = "DEAD"
    /\ slots' = KeySlots_release(slots)
    /\ timers' = {}
    /\ sess_op' = "tear_down"
    /\ UNCHANGED <<bus, sealed>>

\* a session before start()
SessionFresh ==
    /\ slots = [k \in KeyIds |-> "FREE"]
    /\ sess_state = "INITIAL"
    /\ timers = {}
    /\ bus = <<>>
    /\ sealed = FALSE
    /\ sess_op = "none"

\* the protocol core before any packet
CoreIdle == ReplayFresh /\ ReliableFresh /\ SessionFresh

\* the external-PKI profiles a host connects with, with or without an alias
\* (a client that connects without eval_config has no external PKI)
ConnectConfigs ==
    {c \in Configs : c.protoOverride = "" /\ c.gremlinConfig = "" /\ c.content = "epki"}

NextClient ==
    \/ \E config \in ConnectConfigs : (n_eval = 0 /\ ~creds.defined /\ eval_config(config)) /\ UNCHANGED restClient
    \/ connect_attach /\ UNCHANGED <<restClient, cfgvars>>
    \/ \E invalidAlias \in BOOLEAN : connect_setup_epki_cert_error(invalidAlias) /\ UNCHANGED <<restClient, cfgvars>>
    \/ connect_setup_epki_no_alias /\ UNCHANGED <<restClient, cfgvars>>
    \/ \E session_made \in BOOLEAN : connect_setup_throw_early(session_made) /\ UNCHANGED <<restClient, cfgvars>>
    \/ connect_setup_start /\ UNCHANGED <<restClient, cfgvars>>
    \/ connect_setup_finish /\ UNCHANGED <<restClient, cfgvars>>
    \/ connect_setup_throw_late /\ UNCHANGED <<restClient, cfgvars>>
    \/ connect_run_handler /\ UNCHANGED <<restClient, cfgvars>>
    \/ \E event \in SessionEvents : session_add_event(event) /\ UNCHANGED <<restClient, cfgvars>>
    \/ session_self_stop /\ UNCHANGED <<restClient, cfgvars>>
    \/ \E sid \in SessionIds : session_set_session_id(sid) /\ UNCHANGED <<restClient, cfgvars>>
    \/ connect_run_return /\ UNCHANGED <<restClient, cfgvars>>
    \/ (~creds.defined /\ provide_creds(ProvideCredsUser)) /\ UNCHANGED restClient
    \/ stop /\ UNCHANGED <<restClient, cfgvars>>
    \/ session_token /\ UNCHANGED <<restClient, cfgvars>>
    \/ client_destructor /\ UNCHANGED <<restClient, cfgvars>>
    \/ \E event \in SessionEvents : late_add_event(event) /\ UNCHANGED <<restClient, cfgvars>>

\* the TLS adapter, not in use
SSLIdle == InitSSL /\ mode = "client"

\* a constructed client, before any call
InitClient ==
    /\ ClientConstructed /\ ConfigFresh /\ ObserveFresh /\ SSLIdle /\ TablesIdle
    /\ CoreIdle /\ HostFresh /\ LibFresh

SpecClient == InitClient /\ [][NextClient]_vars

\* the profile with external PKI and an alias
EpkiConfig ==
    [content |-> "epki", protoOverride |-> "", externalPkiAlias |-> "alias", gremlinConfig |-> ""]

\* the events of a session that connects, reconnects and sees errors
ObservedEvents == {EV_CONNECTED, EV_RECONNECTED, EV_AUTH_FAILED}

\* a connect() whose session queues events, observed by host threads through
\* connection_info()
NextObserve ==
    \/ connect_attach /\ UNCHANGED <<restClient, cfgvars>>
    \/ connect_setup_start /\ UNCHANGED <<restClient, cfgvars>>
    \/ connect_setup_finish /\ UNCHANGED <<restClient, cfgvars>>
    \/ \E event \in ObservedEvents : session_add_event(event) /\ UNCHANGED <<restClient, cfgvars>>
    \/ session_self_stop /\ UNCHANGED <<restClient, cfgvars>>
    \/ connect_run_return /\ UNCHANGED <<restClient, cfgvars>>
    \/ connection_info /\ UNCHANGED <<sslvars, cfgvars, tabvars, extvars>>

SpecObserve == InitClient /\ [][NextObserve]_vars

\* a connect() whose session records errors and traffic, observed by host
\* threads through the stats API
NextStats ==
    \/ (n_eval = 0 /\ eval_config(EpkiConfig)) /\ UNCHANGED restClient
    \/ connect_attach /\ UNCHANGED <<restClient, cfgvars>>
    \/ connect_setup_epki_cert_error(FALSE) /\ UNCHANGED <<restClient, cfgvars>>
    \/ connect_setup_start /\ UNCHANGED <<restClient, cfgvars>>
    \/ connect_setup_finish /\ UNCHANGED <<restClient, cfgvars>>
    \/ \E err \in ErrorInputs : session_stats_error(err) /\ UNCHANGED <<sslvars, cfgvars, tabvars, extvars>>
    \/ session_inc_stat /\ UNCHANGED <<sslvars, cfgvars, tabvars, extvars>>
    \/ session_self_stop /\ UNCHANGED <<restClient, cfgvars>>
    \/ connect_run_return /\ UNCHANGED <<restClient, cfgvars>>
    \/ \E index \in StatIndexInputs : stats_name(index) /\ UNCHANGED <<sslvars, cfgvars, tabvars, extvars>>
    \/ \E index \in StatIndexInputs : stats_value(index) /\ UNCHANGED <<sslvars, cfgvars, tabvars, extvars>>
    \/ stats_bundle /\ UNCHANGED <<sslvars, cfgvars, tabvars, extvars>>

SpecStats == InitClient /\ [][NextStats]_vars

\* the variables outside the client and the host's calls and callbacks
restHost == <<sslvars, cfgvars, obsvars, tabvars, corevars, libvars>>

\* the cross-thread API methods called so far, all taken together
ForeignCalls == n_calls + Len(stop_log) + n_token_calls + n_obs

\* a connect(), and host threads that call the cross-thread API methods
\* before, while and after it runs
NextForeign ==
    \/ (~creds.defined /\ provide_creds(ProvideCredsUser)) /\ UNCHANGED restClient
    \/ connect_attach /\ UNCHANGED <<restClient, cfgvars>>
    \/ connect_setup_throw_early(TRUE) /\ UNCHANGED <<restClient, cfgvars>>
    \/ connect_setup_start /\ UNCHANGED <<restClient, cfgvars>>
    \/ connect_setup_finish /\ UNCHANGED <<restClient, cfgvars>>
    \/ connect_setup_throw_late /\ UNCHANGED <<restClient, cfgvars>>
    \/ connect_run_handler /\ UNCHANGED <<restClient, cfgvars>>
    \/ session_add_event(EV_CONNECTED) /\ UNCHANGED <<restClient, cfgvars>>
    \/ session_set_session_id("sid1") /\ UNCHANGED <<restClient, cfgvars>>
    \/ session_inc_stat /\ UNCHANGED <<sslvars, cfgvars, tabvars, extvars>>
    \/ session_self_stop /\ UNCHANGED <<restClient, cfgvars>>
    \/ connect_run_return /\ UNCHANGED <<restClient, cfgvars>>
    \/ (ForeignCalls < MaxForeign /\ stop) /\ UNCHANGED <<restClient, cfgvars>>
    \/ \E op \in SessionCalls :
          (ForeignCalls < MaxForeign /\ session_call(op)) /\ UNCHANGED restHost
    \/ (ForeignCalls < MaxForeign /\ session_token) /\ UNCHANGED <<restClient, cfgvars>>
    \/ (ForeignCalls < MaxForeign /\ connection_info)
          /\ UNCHANGED <<sslvars, cfgvars, tabvars, extvars>>
    \/ (ForeignCalls < MaxForeign /\ stats_value(BYTES_IN))
          /\ UNCHANGED <<sslvars, cfgvars, tabvars, extvars>>
    \/ (ForeignCalls < MaxForeign /\ stats_bundle)
          /\ UNCHANGED <<sslvars, cfgvars, tabvars, extvars>>

SpecForeign == InitClient /\ [][NextForeign]_vars

\* a constructed client whose host has configured a clock tick
InitTick ==
    /\ ClientConstructed /\ ConfigFresh /\ ObserveFresh /\ SSLIdle /\ TablesIdle
    /\ CoreIdle /\ LibFresh
    /\ clockTickMS = 1000
    /\ posted = <<>> /\ n_calls = 0 /\ n_sign = 0
    /\ sign_req = [error |-> FALSE, invalidAlias |-> FALSE, sig |-> ""]
    /\ sig = "" /\ sign_ret = "none"

\* a connect() with a clock tick, stopped by the host or by the session
NextTick ==
    \/ connect_attach /\ UNCHANGED <<restClient, cfgvars>>
    \/ connect_setup_start /\ UNCHANGED <<restClient, cfgvars>>
    \/ connect_setup_finish /\ UNCHANGED <<restClient, cfgvars>>
    \/ connect_setup_throw_late /\ UNCHANGED <<restClient, cfgvars>>
    \/ clock_tick_expire /\ UNCHANGED <<restClient, cfgvars>>
    \/ clock_tick_handler /\ UNCHANGED <<restClient, cfgvars>>
    \/ session_add_event(EV_CONNECTED) /\ UNCHANGED <<restClient, cfgvars>>
    \/ stop /\ UNCHANGED <<restClient, cfgvars>>
    \/ connect_run_handler /\ UNCHANGED <<restClient, cfgvars>>
    \/ session_self_stop /\ UNCHANGED <<restClient, cfgvars>>
    \/ connect_run_return /\ UNCHANGED <<restClient, cfgvars>>

SpecTick == InitTick /\ [][NextTick]_vars

\* a connect() with external PKI whose TLS layer asks the host to sign
NextSign ==
    \/ (n_eval = 0 /\ eval_config(EpkiConfig)) /\ UNCHANGED restClient
    \/ connect_attach /\ UNCHANGED <<restClient, cfgvars>>
    \/ connect_setup_start /\ UNCHANGED <<restClient, cfgvars>>
    \/ connect_setup_finish /\ UNCHANGED <<restClient, cfgvars>>
    \/ \E req_error \in BOOLEAN, invalidAlias \in BOOLEAN, req_sig \in Signatures :
          sign(req_error, invalidAlias, req_sig) /\ UNCHANGED restHost
    \/ session_self_stop /\ UNCHANGED <<restClient, cfgvars>>
    \/ connect_run_return /\ UNCHANGED <<restClient, cfgvars>>

SpecSign == InitClient /\ [][NextSign]_vars

\* the host configures the client: eval_config and provide_creds in any order
NextConfig ==
    \/ \E config \in Configs : eval_config(config) /\ UNCHANGED restClient
    \/ \E pcreds \in ProvideCredsInputs : provide_creds(pcreds) /\ UNCHANGED restClient

SpecConfig == InitClient /\ [][NextConfig]_vars

\* an SSL object entering its constructor, after clear(): any mode, nothing
\* allocated, the client API not in use
InitCtor ==
    /\ ClientConstructed /\ ConfigFresh /\ ObserveFresh /\ TablesIdle
    /\ CoreIdle /\ HostFresh /\ LibFresh
    /\ ssl = "null" /\ sslconf = "null" /\ heap = {}
    /\ ctor_pc = "mode" /\ ctor_ret = "none"
    /\ mode \in {"client", "server", "undefined"}
    /\ hs = "HELLO_REQUEST" /\ bytes_avail = FALSE
    /\ ct_in = 0 /\ ct_out = 0 /\ overflow = clear_overflow
    /\ ssl_op = "SSL" /\ ssl_status = "none" /\ ssl_ret = "void"
    /\ ekm_size = 0 /\ ekm_written = 0

SpecCtor == InitCtor /\ [][NextCtor]_vars

(***************************************************************************)
(* WS::ChunkedHelper: the decoder of a body sent with Transfer-Encoding:   *)
(* chunked.  d is the ChunkedHelper object, buf the buffer of one          *)
(* receive(); bytes are one-character strings.                             *)
(***************************************************************************)
\* the bytes the model tells apart: two hex digits, CR, LF and a byte that
\* is none of these
Bytes == {"0", "2", "\r", "\n", "x"}

\* parse_hex_char(c): the value of a hex digit, -1 for any other byte
parse_hex_char(c) == IF c = "0" THEN 0 ELSE IF c = "2" THEN 2 ELSE -1

\* receive(), the switch on state for the byte c; 'goto reprocess' runs the
\* switch again on the same byte
RECURSIVE reprocess(_, _)
reprocess(d, c) ==
    IF d.state = "hex"
        THEN IF parse_hex_char(c) >= 0
                THEN [d EXCEPT !.size = to_size_t((@ * 16) + parse_hex_char(c))]
                ELSE reprocess([d EXCEPT !.state = "post_hex"], c)
    ELSE IF d.state = "post_hex"
        THEN IF c = "\r" THEN [d EXCEPT !.state = "post_hex_lf"] ELSE d
    ELSE IF d.state = "post_hex_lf"
        THEN IF c = "\n"
                THEN [d EXCEPT !.state = IF d.size # 0 THEN "chunk" ELSE "post_content_cr"]
                ELSE reprocess([d EXCEPT !.state = "post_hex"], c)
    ELSE IF d.state = "post_chunk_cr"
        THEN IF c = "\r" THEN [d EXCEPT !.state = "post_chunk_lf"] ELSE d
    ELSE IF d.state = "post_chunk_lf"
        THEN IF c = "\n" THEN [d EXCEPT !.state = "hex"]
             ELSE reprocess([d EXCEPT !.state = "post_chunk_cr"], c)
    ELSE IF d.state = "post_content_cr"
        THEN IF c = "\r" THEN [d EXCEPT !.state = "post_content_lf"] ELSE d
    ELSE IF d.state = "post_content_lf"
        THEN IF c = "\n" THEN [d EXCEPT !.state = "done"]
             ELSE reprocess([d EXCEPT !.state = "post_content_cr"], c)
    ELSE d

\* receive(), 'size -= buf.size()' written as 'size = 0'
chunk_rest_forgotten(size, n) == 0
\* receive(), 'size -= buf.size()' when the whole buffer of n bytes is content
chunk_rest(size, n) == size - n

\* receive(callback, buf): the while loop.  out collects the bytes passed to
\* callback.chunked_content_in; the result holds the object, those bytes and
\* what is left in buf
RECURSIVE receive_loop(_, _, _)
receive_loop(d, buf, out) ==
    IF buf = <<>> THEN [d |-> d, out |-> out, left |-> <<>>]
    ELSE IF d.state = "chunk"
        THEN IF d.size # 0
                THEN IF Len(buf) <= d.size
                        THEN [d |-> [d EXCEPT !.size = chunk_rest(@, Len(buf))],
                              out |-> out \o buf, left |-> <<>>]
                        ELSE receive_loop([d EXCEPT !.size = 0],
                                          SubSeq(buf, d.size + 1, Len(buf)),
                                          out \o SubSeq(buf, 1, d.size))
                ELSE receive_loop([d EXCEPT !.state = "post_chunk_cr"], buf, out)
    ELSE IF d.state = "done" THEN [d |-> d, out |-> out, left |-> buf]
    ELSE receive_loop(reprocess(d, Head(buf)), Tail(buf), out)

\* ChunkedHelper::receive(callback, buf)
receive(d, buf) == receive_loop(d, buf, <<>>)

\* the next n bytes of the stream arrive in one buffer and go to receive()
receive_call(n) ==
    /\ n <= Len(ch_in)
    /\ LET buf == SubSeq(ch_in, 1, n)
           r == receive(chunked, buf)
       IN  /\ chunked' = r.d
           /\ ch_content' = ch_content \o r.out
           /\ ch_consumed' = ch_consumed + (n - Len(r.left))
           /\ ch_ret' = IF r.d.state = "done" THEN "true" ELSE "false"
           /\ ch_fed' = ch_fed \o buf
           /\ ch_in' = SubSeq(ch_in, n + 1, Len(ch_in))
    /\ UNCHANGED ch_body

\* the byte streams of at most MaxStream bytes
Streams == UNION {[1..n -> Bytes] : n \in 0..MaxStream}

CRLF == <<"\r", "\n">>

\* a chunk on the wire: chunk-size in hex, chunk extension, payload of that size
Chunks ==
    [sizeline : {<<"2">>, <<"0", "2">>}, ext : {<<>>, <<"x">>},
     payload : {<<"x", "x">>, <<"\r", "\n">>, <<"0", "x">>}]

\* the well-formed chunked bodies: chunks, the last-chunk line, trailer
\* fields, and the CRLF that ends the body
Bodies ==
    [wellformed : {TRUE},
     chunks : UNION {[1..n -> Chunks] : n \in 0..MaxChunks},
     trailers : {<<>>, << <<"x">> >>}]

\* the bytes of chunk k
EncodeChunk(k) == k.sizeline \o k.ext \o CRLF \o k.payload \o CRLF

RECURSIVE EncodeChunks(_)
EncodeChunks(ks) == IF ks = <<>> THEN <<>> ELSE EncodeChunk(Head(ks)) \o EncodeChunks(Tail(ks))

RECURSIVE EncodeTrailers(_)
EncodeTrailers(ts) == IF ts = <<>> THEN <<>> ELSE Head(ts) \o CRLF \o EncodeTrailers(Tail(ts))

\* the bytes of body b on the wire
Encode(b) == EncodeChunks(b.chunks) \o <<"0">> \o CRLF \o EncodeTrailers(b.trailers) \o CRLF

\* a new decoder, and a stream that is about to arrive: any short byte
\* stream, or a well-formed chunked body
InitChunked ==
    /\ ClientConstructed /\ ConfigFresh /\ ObserveFresh /\ SSLIdle /\ TablesIdle
    /\ CoreIdle /\ HostFresh /\ VerifyFresh /\ HTTPFresh
    /\ chunked = ChunkedConstructed
    /\ \/ ch_body = NoBody /\ ch_in \in Streams
       \/ ch_body \in Bodies /\ ch_in = Encode(ch_body)
    /\ ch_fed = <<>>
    /\ ch_consumed = 0
    /\ ch_content = <<>>
    /\ ch_ret = "none"

\* the stream arrives in buffers of any sizes
NextChunked ==
    \/ \E n \in 0..MaxPiece : receive_call(n)
          /\ UNCHANGED <<sslvars, clivars, cfgvars, obsvars, tabvars, corevars, hostvars, vfyvars, httpvars>>

SpecChunked == InitChunked /\ [][NextChunked]_vars

\* the engine is about to call the verification callback: any depth, any flags
\* word, any configuration and certificate
InitVerify ==
    /\ ClientConstructed /\ ConfigFresh /\ ObserveFresh /\ SSLIdle /\ TablesIdle
    /\ CoreIdle /\ HostFresh /\ HTTPFresh /\ ChunkedFresh
    /\ vfy_arg \in VerifyCalls
    /\ vfy_flags = vfy_arg.flags
    /\ vfy_ret = "none"

NextVerify ==
    \/ verify_callback_client_call
          /\ UNCHANGED <<sslvars, clivars, cfgvars, obsvars, tabvars, corevars, hostvars, httpvars, chunkvars>>

SpecVerify == InitVerify /\ [][NextVerify]_vars

\* the variables outside the HTTP client
restHTTP == <<sslvars, clivars, cfgvars, obsvars, tabvars, corevars, hostvars, vfyvars, chunkvars>>

\* the host starts requests and stops the client while asio delivers the
\* completions of the resolver, the socket, the link and the timers in any order
NextHTTP ==
    \/ start_request /\ UNCHANGED restHTTP
    \/ http_stop /\ UNCHANGED restHTTP
    \/ request_posted /\ UNCHANGED restHTTP
    \/ resolve_done /\ UNCHANGED restHTTP
    \/ connect_done /\ UNCHANGED restHTTP
    \/ general_timeout /\ UNCHANGED restHTTP
    \/ connect_timeout /\ UNCHANGED restHTTP
    \/ tcp_read /\ UNCHANGED restHTTP
    \/ tcp_write_ready /\ UNCHANGED restHTTP
    \/ tcp_eof /\ UNCHANGED restHTTP
    \/ tcp_error /\ UNCHANGED restHTTP
    \/ done_after_stop /\ UNCHANGED restHTTP

SpecHTTP == InitClient /\ [][NextHTTP]_vars

\* a constructed SSL object of either mode, the client API not in use
InitAdapter ==
    /\ InitSSL /\ ClientConstructed /\ ConfigFresh /\ ObserveFresh /\ TablesIdle
    /\ CoreIdle /\ HostFresh /\ LibFresh

\* the name of an error code is asked for, for every size_t value up to
\* MaxBeyond past the last code
InitTables ==
    /\ ClientConstructed /\ ConfigFresh /\ ObserveFresh /\ SSLIdle /\ CoreIdle /\ HostFresh /\ LibFresh
    /\ tab_op = "none"
    /\ tab_in \in 0..(N_ERRORS + MaxBeyond)
    /\ tab_out = ""

NextTables ==
    \/ Error_name_call /\ UNCHANGED <<sslvars, clivars, cfgvars, obsvars, extvars>>

SpecTables == InitTables /\ [][NextTables]_vars

SpecSSL == InitAdapter /\ [][NextSSL]_vars

\* the variables outside the replay window
restReplay == <<sslvars, clivars, cfgvars, obsvars, tabvars, relvars, sessionvars, hostvars, libvars>>

\* inbound data packets of one key reach the replay check in any order
NextReplay ==
    \/ \E id \in PacketIds : replay_check(id) /\ UNCHANGED restReplay

SpecReplay == InitClient /\ [][NextReplay]_vars

\* the variables outside the reliable layer
restReliable == <<sslvars, clivars, cfgvars, obsvars, tabvars, rpvars, sessionvars, hostvars, libvars>>

\* control records arrive in any order, repeated, and from any sender
NextReliable ==
    \/ \E sid \in RelSids, id \in RelIds : reliable_receive(sid, id) /\ UNCHANGED restReliable

SpecReliable == InitClient /\ [][NextReliable]_vars

\* the variables outside the session
restSession == <<sslvars, clivars, cfgvars, obsvars, tabvars, rpvars, relvars, hostvars, libvars>>

\* a session from start() to tear-down, with renegotiations, timer expiries
\* and errors at any moment
NextSession ==
    \/ session_start /\ UNCHANGED restSession
    \/ \E k \in KeyIds : session_hard_reset_server(k) /\ UNCHANGED restSession
    \/ session_key_method_2 /\ UNCHANGED restSession
    \/ session_push_reply /\ UNCHANGED restSession
    \/ \E k \in KeyIds : session_renegotiate(k) /\ UNCHANGED restSession
    \/ \E k \in KeyIds : session_first_data(k) /\ UNCHANGED restSession
    \/ session_primary_expire /\ UNCHANGED restSession
    \/ \E t \in {"handshake", "keepalive_receive", "inactivity"} :
          session_timer_expired(t) /\ UNCHANGED restSession
    \/ \E code \in PacketErrors : session_error(code, FALSE) /\ UNCHANGED restSession
    \/ \E code \in FatalErrors : session_error(code, TRUE) /\ UNCHANGED restSession
    \/ session_stop /\ UNCHANGED restSession
    \/ session_tear_down /\ UNCHANGED restSession

SpecSession == InitClient /\ [][NextSession]_vars


(***************************************************************************)
(* Claims about the TLS adapter, checked under SpecSSL.                    *)
(***************************************************************************)
\* the step is a call of one of the two ciphertext writers
CiphertextWriteStep == ssl_op' \in {"write_ciphertext", "write_ciphertext_unbuffered"}

\* C5: the inbound ciphertext queue never holds more than MAX_CIPHERTEXT_IN (64)
\* buffers, and a write that arrives while 64 are queued enqueues nothing and
\* sets the overflow flag.
C5_CiphertextInCeiling ==
    /\ [](MemQ_size(ct_in) <= MAX_CIPHERTEXT_IN)
    /\ [][(CiphertextWriteStep /\ MemQ_size(ct_in) = MAX_CIPHERTEXT_IN)
            => (ct_in' = ct_in /\ overflow')]_vars

\* C5 witness: a write has hit the full queue and was turned into an overflow
C5_Witness ==
    /\ ssl_op = "write_ciphertext"
    /\ MemQ_size(ct_in) = MAX_CIPHERTEXT_IN
    /\ overflow

\* C6: once the overflow flag is set it stays set while the session object
\* lives, and every read_cleartext from then on throws
\* ssl_ciphertext_in_overflow, whatever the queue has drained to.
C6_OverflowIsFatal ==
    [][(overflow /\ ssl' = "live")
         => /\ overflow'
            /\ (ssl_op' = "read_cleartext" => ssl_ret' = "throw ssl_ciphertext_in_overflow")]_vars

\* C6 witness: read_cleartext has thrown the overflow error with the queue
\* drained below the ceiling
C6_Witness ==
    /\ overflow
    /\ MemQ_size(ct_in) < MAX_CIPHERTEXT_IN
    /\ ssl_op = "read_cleartext"
    /\ ssl_ret = "throw ssl_ciphertext_in_overflow"

CloseNotifyRead ==
    ssl_op = "read_cleartext" /\ ssl_status = "MBEDTLS_ERR_SSL_PEER_CLOSE_NOTIFY"

\* results of read_cleartext that are a thrown SSL error
ReadThrows ==
    {"throw MbedTLSException(SSL read: internal error)",
     "throw MbedTLSException(SSL read error)",
     "throw ssl_ciphertext_in_overflow"}

\* C8 as claimed: a close-notify read during the handshake is a thrown SSL
\* error, one read in steady state is the PEER_CLOSE_NOTIFY result.
C8_CloseNotifyFatalInHandshake ==
    CloseNotifyRead =>
        IF hs = "HANDSHAKE" THEN ssl_ret \in ReadThrows ELSE ssl_ret = "PEER_CLOSE_NOTIFY"

\* C8 amended: read_cleartext reports a peer close-notify as the PEER_CLOSE_NOTIFY
\* result, without throwing, during the handshake as in steady state, and
\* returns PEER_CLOSE_NOTIFY for nothing else.
C8_CloseNotifyResult ==
    ssl_op = "read_cleartext" =>
        (ssl_ret = "PEER_CLOSE_NOTIFY" <=> ssl_status = "MBEDTLS_ERR_SSL_PEER_CLOSE_NOTIFY")

\* C8 witness: a close-notify was read while the handshake was in progress
C8_Witness ==
    CloseNotifyRead /\ hs = "HANDSHAKE" /\ ssl_ret = "PEER_CLOSE_NOTIFY"

StopStep == Len(stop_log') = Len(stop_log) + 1

\* C1: however often stop() is called while connect() runs, the session's
\* graceful stop is posted and run at most once, and a stop() that finds the
\* stop already triggered changes nothing of the client.
C1_StopIdempotent ==
    /\ [](graceful_stop_calls + Len(io_queue) <= 1)
    /\ [][(StopStep /\ stop_called)
            => UNCHANGED <<connvars, sessvars, stopvars, evvars, errors, credvars>>]_vars

\* C1 witness: stop() was called twice while the session ran, and
\* graceful_stop ran once
C1_Witness ==
    /\ Len(stop_log) >= 2
    /\ stop_log[1] = "run" /\ stop_log[2] = "run"
    /\ graceful_stop_calls = 1
    /\ session = "stopped"

\* C2 as claimed: a stop() called while connect() is executing is not lost, so
\* there is no state in which stop() has been called, the session runs and no
\* stop has been recorded for it.
C2_StopNotLost ==
    (stop_log # <<>> /\ pc = "run" /\ session = "started") => stop_called

\* C3 as claimed: whenever connect() has returned and no session was ever
\* started, the Status it returned has error = true.
C3_NoSessionMeansError ==
    (pc = "returned" /\ session \in {"null", "created"}) => status.error

\* the host callback an event is due, spelt out from the claim
CallbackDue(e) ==
    IF e.id = "CUSTOM_CONTROL"
    THEN [cb |-> "acc_event", protocol |-> e.protocol, payload |-> e.custommessage]
    ELSE [cb |-> "event", name |-> e.name, info |-> e.info, error |-> e.error, fatal |-> e.fatal]

\* C4: the events added while the client is attached have each produced
\* exactly one host callback, in the order they were added: acc_event() for
\* CUSTOM_CONTROL, event() with name, rendered info, error and fatal flag for
\* the others; events added after the detach produce none.
C4_EventsDelivered ==
    /\ Len(host_calls) = Len(added)
    /\ \A i \in 1..Len(added) : host_calls[i] = CallbackDue(added[i])

\* C4 witness: a custom control message, a non-fatal error and the
\* DISCONNECTED event were added, in this order, and one more after the detach
C4_Witness ==
    /\ Len(added) = 3
    /\ added[1].id = "CUSTOM_CONTROL"
    /\ added[2].id = "TRANSPORT_ERROR"
    /\ added[3].id = "DISCONNECTED"
    /\ dropped > 0

\* the step is a call of OpenVPNClient::session_token()
TokenStep == n_token_calls' = n_token_calls + 1

\* C10: session_token returns true exactly when connect setup has completed
\* and the credentials hold a session id, and then tok is the current user name
\* and session id; when it returns false tok is what it was before the call.
C10_SessionToken ==
    [][TokenStep =>
         IF foreign_thread_ready /\ creds.defined /\ creds.session_id_defined
         THEN /\ api_ret' = "true"
              /\ tok' = [username |-> creds.username, session_id |-> creds.password]
         ELSE /\ api_ret' = "false"
              /\ tok' = tok]_vars

\* C10 witness: the second call of session_token has returned true and tok
\* holds the user name and the session id the server pushed
C10_Witness ==
    /\ api_op = "session_token"
    /\ n_token_calls = 2
    /\ api_ret = "true"
    /\ tok = [username |-> "user", session_id |-> "sid2"]

(***************************************************************************)
(* Claims about eval_config and provide_creds, checked under SpecConfig.   *)
(***************************************************************************)
\* the step is a call of OpenVPNClient::provide_creds()
ProvideStep == n_provide' = n_provide + 1

\* C11: a call of provide_creds returns a Status and never throws; either the
\* Status has error = false and the stored credentials are a complete new
\* object made of the argument, or it has error = true with a message and the
\* stored credentials are the ones stored before the call.
C11_ProvideCredsAllOrNothing ==
    [][ProvideStep =>
         /\ api_ret' = "returned"
         /\ IF api_status'.error
            THEN /\ api_status'.message # ""
                 /\ creds' = creds
            ELSE creds' = [defined |-> TRUE, username |-> api_arg'.username,
                           password |-> api_arg'.password, session_id_defined |-> FALSE]]_vars

\* C11 witness: the second provide_creds failed on its cookie and the
\* credentials of the first call are still stored
C11_Witness ==
    /\ api_op = "provide_creds"
    /\ n_provide = 2
    /\ api_status.error
    /\ api_arg.username = "user2"
    /\ creds.defined /\ creds.username = "user"

\* the step is a call of OpenVPNClient::eval_config()
EvalStep == n_eval' = n_eval + 1

\* the profile of the config cannot be parsed
ParseFails(config) ==
    config.protoOverride = "bogus" \/ config.content \in {"bad_option", "too_long"}

\* C12: a call of eval_config whose profile fails to parse returns, without
\* throwing, an EvalConfig with error = true and a message, leaves clientconf
\* as it was (the extra settings are not processed) and leaves the stored
\* evaluation as it was.
C12_EvalConfigParseFailure ==
    [][(EvalStep /\ ParseFails(api_arg')) =>
         /\ api_ret' = "returned"
         /\ api_status'.error
         /\ api_status'.message # ""
         /\ clientconf' = clientconf
         /\ eval' = eval]_vars

\* C12 witness: an external-PKI profile was evaluated and stored, then a
\* profile with a bad option was rejected and the first evaluation is kept
C12_Witness ==
    /\ api_op = "eval_config"
    /\ n_eval = 2
    /\ api_arg.content = "bad_option"
    /\ api_status.error
    /\ eval.externalPki /\ ~eval.error
    /\ options = "bad_option"
    /\ clientconf.external_pki_alias = "alias"

(***************************************************************************)
(* Claims about connection_info, checked under SpecObserve, and about the  *)
(* error counters and the stats API, checked under SpecStats.              *)
(***************************************************************************)
\* the step is a call of the observer op
ObserveStep(op) == n_obs' = n_obs + 1 /\ obs_op' = op

\* the positions, among the host callbacks made, of the CONNECTED events
ConnectedDelivered ==
    {i \in 1..Len(host_calls) : host_calls[i].cb = "event" /\ host_calls[i].name = "CONNECTED"}

\* the largest element of a non-empty set of numbers
MaxOf(S) == CHOOSE x \in S : \A y \in S : y <= x

\* C13: connection_info() returns defined = true exactly when connect setup
\* has completed and a CONNECTED event has been delivered to the host, and
\* the ConnectionInfo then carries the data of the CONNECTED event delivered
\* last, whatever was delivered after it.
C13_ConnectionInfo ==
    [][ObserveStep("connection_info") =>
         /\ obs_ci'.defined <=> (foreign_thread_ready /\ ConnectedDelivered # {})
         /\ obs_ci'.defined =>
              LET e == added[MaxOf(ConnectedDelivered)]
              IN  obs_ci' = [defined |-> TRUE, user |-> e.user,
                             serverHost |-> e.server_host, serverIp |-> e.server_ip]]_vars

\* C13 witness: the session connected, reconnected to another address and
\* disconnected; connection_info then returned the data of the reconnect
C13_Witness ==
    /\ obs_op = "connection_info"
    /\ Len(added) = 3
    /\ added[1] = EV_CONNECTED
    /\ added[2] = EV_RECONNECTED
    /\ added[3].id = "DISCONNECTED"
    /\ obs_ci.defined
    /\ obs_ci.serverIp = "10.0.0.2"

\* the step is the session recording an error
ErrorStep == n_error_calls' = n_error_calls + 1

\* C14: recording the error code err adds one to the counter of err and to no
\* other when err < N_ERRORS and changes no counter otherwise; it queues no
\* event, makes no host callback and leaves the session and connect() where
\* they are; and no step of the client makes an error counter smaller.
C14_ErrorsCountedAndSuppressed ==
    /\ [][ErrorStep =>
            /\ errors' = [e \in 0..(N_ERRORS - 1) |->
                            IF e = last_err' THEN errors[e] + 1 ELSE errors[e]]
            /\ UNCHANGED <<evvars, sessvars, stopvars, connvars>>]_vars
    /\ [][\A e \in 0..(N_ERRORS - 1) : errors'[e] >= errors[e]]_vars

\* C14 witness: the running session recorded a replay error and then a value
\* that is no code; one counter stands at 1, no event was queued
C14_Witness ==
    /\ n_error_calls = 2
    /\ last_err = N_ERRORS
    /\ errors[7] = 1
    /\ errors[N_ERRORS - 1] = 0
    /\ session = "started"
    /\ added = <<>>

\* the index is outside 0 .. stats_n() - 1
OutOfRange(index) == index < 0 \/ index >= N_STATS + N_ERRORS

\* C15: stats_bundle() returns N_STATS + N_ERRORS values; stats_name of an
\* index out of range is the empty string and stats_value of it is 0; and
\* before connect setup has completed stats_value and every value of
\* stats_bundle are 0.
C15_StatsApi ==
    [][(n_obs' = n_obs + 1) =>
         /\ obs_op' = "stats_bundle" =>
              /\ Len(obs_bundle') = N_STATS + N_ERRORS
              /\ ~foreign_thread_ready => \A i \in 1..Len(obs_bundle') : obs_bundle'[i] = 0
         /\ (obs_op' = "stats_name" /\ OutOfRange(obs_arg')) => obs_name' = ""
         /\ (obs_op' = "stats_value" /\ (OutOfRange(obs_arg') \/ ~foreign_thread_ready))
              => obs_value' = 0]_vars

\* C15 witness: connect setup ended at a failed external-PKI certificate
\* request, which was counted, and stats_bundle() still returned only zeros
C15_Witness ==
    /\ obs_op = "stats_bundle"
    /\ ~foreign_thread_ready
    /\ errors[EPKI_CERT_ERROR] = 1
    /\ Len(obs_bundle) = N_STATS + N_ERRORS
    /\ obs_bundle[N_STATS + EPKI_CERT_ERROR + 1] = 0

(***************************************************************************)
(* Claim about the error-name table, checked under SpecTables.             *)
(***************************************************************************)
\* C16 as claimed: for every code c < N_ERRORS, Error::name(c) is the
\* identifier of the enumerator of Error::Type whose value is c, and for
\* every c >= N_ERRORS it is "UNKNOWN_ERROR_TYPE".
C16_NameIsEnumerator ==
    (tab_op = "Error::name") =>
        tab_out = IF tab_in < N_ERRORS THEN ErrorTypes[tab_in + 1] ELSE "UNKNOWN_ERROR_TYPE"

(***************************************************************************)
(* Claim about the replay window, checked under SpecReplay.                *)
(***************************************************************************)
\* what C17 asks of one replay check of the id rp_in'
ReplayChecked ==
    /\ rp_high' >= rp_high
    /\ (rp_in' <= rp_high - ReplayWidth) =>
           (rp_result' = "PKTID_EXPIRE" /\ rp_count' = rp_count)
    /\ (rp_in' > rp_high - ReplayWidth /\ rp_in' \in rp_seen) =>
           (rp_result' = "PKTID_REPLAY" /\ rp_count' = rp_count)
    /\ \A id \in PacketIds : rp_count'[id] <= 1

\* C17: the high-water mark of the replay window never decreases; a packet
\* id that is <= high-water mark - window width is rejected as expired, an
\* id whose bit is set is rejected as a duplicate, and no packet id is
\* accepted twice under one key.
C17_ReplayWindow == [][ReplayChecked]_vars

\* an id that was accepted comes again after the window has moved on, and
\* is rejected as a duplicate
C17_Witness ==
    /\ rp_result = "PKTID_REPLAY"
    /\ rp_count[rp_in] = 1
    /\ rp_high > rp_in
    /\ \E id \in PacketIds : id <= rp_high - ReplayWidth /\ rp_count[id] = 1

(***************************************************************************)
(* Claim about the reliable layer, checked under SpecReliable.             *)
(***************************************************************************)
\* the ids in a sequence of deliveries
Delivered(d) == {d[i] : i \in 1..Len(d)}

\* what C18 asks of the arrival of one control record
ReliableReceived ==
    /\ \A i \in 2..Len(rel_delivered') : rel_delivered'[i] = rel_delivered'[i - 1] + 1
    /\ (rel_sid' = "peer" /\ rel_in' \in Delivered(rel_delivered) \cup rel_buf) =>
           /\ rel_acks' = Append(rel_acks, rel_in')
           /\ rel_delivered' = rel_delivered

\* C18: the control records go to the TLS adapter strictly in order, each
\* with a packet id one greater than that of the record delivered before
\* it, and a duplicate record is acknowledged and not delivered again.
C18_DeliveredInOrder == [][ReliableReceived]_vars

\* records that came out of order have been delivered in order, and a
\* duplicate of one of them has been acknowledged
C18_Witness ==
    /\ rel_what = "duplicate"
    /\ rel_delivered = <<0, 1, 2>>
    /\ rel_in \in Delivered(rel_delivered)
    /\ rel_acks[Len(rel_acks)] = rel_in
    /\ rel_acks[1] # 0

HasFatal(b) == \E i \in 1..Len(b) : b[i].fatal

\* what C20 asks of one step of the session
SealedStep ==
    /\ HasFatal(bus') => (timers' = {} /\ sess_state' \in {"STOPPING", "DEAD"})
    /\ HasFatal(bus) =>
           \/ sess_state' = sess_state
           \/ sess_state = "STOPPING" /\ sess_state' = "DEAD"

\* C20: the first fatal error event seals the session: from then on every
\* timer is cancelled and the session makes no state transition other than
\* its tear-down.
C20_FatalSeals == [][SealedStep]_vars

\* a session with an installed primary key was sealed by a fatal event, and
\* a later event left it as it was
C20_Witness ==
    /\ Len(bus) = 2
    /\ bus[1].fatal
    /\ sess_state = "STOPPING"
    /\ SlotsIn(slots, "ACTIVE_PRIMARY") # {}

(***************************************************************************)
(* Claim about foreign-thread access, checked under SpecForeign.           *)
(***************************************************************************)
\* a host thread calls one of the cross-thread API methods
ApiStep ==
    \/ n_calls' # n_calls
    \/ Len(stop_log') # Len(stop_log)
    \/ n_token_calls' # n_token_calls
    \/ n_obs' # n_obs

\* what a cross-thread API method gives back when it has done nothing
DefaultAnswer ==
    /\ api_op' = "session_token" => (api_ret' = "false" /\ tok' = tok)
    /\ obs_op' = "connection_info" => obs_ci' = ConnectionInfoDefault
    /\ obs_op' = "stats_value" => obs_value' = 0
    /\ obs_op' = "stats_bundle" => obs_bundle' = [i \in 1..(N_STATS + N_ERRORS) |-> 0]

\* what C21 asks of one step
ForeignAccessStep ==
    /\ foreign_thread_ready' =>
           (session' \in {"started", "stopped"} /\ stop_scope_local')
    /\ (ApiStep /\ ~foreign_thread_ready) =>
           /\ UNCHANGED <<sessvars, stopvars, evvars, errors, creds, stat_values, posted>>
           /\ DefaultAnswer

\* C21: whenever the foreign-thread-access flag is true the session object
\* exists, its start() has been called and the async-stop scopes are wired;
\* while the flag is false stop, pause, resume, reconnect, post_cc_msg, the
\* stats methods, connection_info and session_token touch neither the
\* session nor the stats and events objects and return their default value.
C21_ForeignAccess == [][ForeignAccessStep]_vars

\* a request reached the running session, after one that was made too early
\* and reached nothing
C21_Witness ==
    /\ foreign_thread_ready
    /\ n_calls = 2
    /\ Len(posted) = 1

(***************************************************************************)
(* Claims about connect(), checked under SpecClient.                       *)
(***************************************************************************)
\* what C22 asks of one step
SecondConnectStep ==
    /\ (n_connect' = n_connect + 1 /\ n_connect >= 1) =>
           (status'.error /\ pc' = "returned" /\ ~session_started' /\ UNCHANGED sessvars)
    /\ (n_connect' >= 2 /\ pc' # "destroyed") => (pc' = "returned" /\ status'.error)

\* C22: a client object is attached at most once: a second connect() on it
\* returns a Status with error = true and neither creates nor starts
\* another session.
C22_AttachOnce == [][SecondConnectStep]_vars

\* the second connect() on a client whose first connect() ran a session
C22_Witness ==
    /\ n_connect = 2
    /\ pc = "returned"
    /\ status.error
    /\ session = "stopped"
    /\ foreign_thread_ready

\* what C23 asks of one step: connect_setup runs while pc is "setup" or
\* "wire", and an exception takes connect() to its return
SetupThrowsStep ==
    (pc \in {"setup", "wire"} /\ pc' = "returned") =>
        IF session = "started"
        THEN session_stop_calls' = session_stop_calls + 1 /\ session' = "stopped"
        ELSE session_stop_calls' = session_stop_calls /\ session' # "stopped"

\* C23: when connect setup throws, the session's stop() is called before
\* connect() returns if and only if the session's start() had been called.
C23_StopIffStarted == [][SetupThrowsStep]_vars

\* connect_setup threw after session->start(), and the session was stopped
C23_Witness ==
    /\ pc = "returned"
    /\ status.error
    /\ session = "stopped"
    /\ session_stop_calls = 1
    /\ ~foreign_thread_ready

(***************************************************************************)
(* Claim about the clock tick, checked under SpecTick.                     *)
(***************************************************************************)
\* C24 as claimed: after a DISCONNECTED event has been delivered to the
\* host, clock_tick() is not called again.
C24_NoTickAfterDisconnected ==
    \A i \in 1..Len(host_calls) : \A j \in 1..Len(host_calls) :
        (i < j /\ host_calls[i].cb = "event" /\ host_calls[i].name = "DISCONNECTED") =>
            host_calls[j].cb # "clock_tick"

(***************************************************************************)
(* Claim about sign(), checked under SpecSign.                             *)
(***************************************************************************)
\* the events C25 expects of a failed signature
SignErrorEvents ==
    (IF sign_req'.invalidAlias THEN <<EV_EPKI_INVALID_ALIAS>> ELSE <<>>) \o <<EV_EPKI_ERROR>>

\* what C25 asks of one call of sign()
SignFailedStep ==
    (n_sign' = n_sign + 1 /\ sign_req'.error) =>
        /\ sign_ret' = "false"
        /\ sig' = sig
        /\ added' = added \o SignErrorEvents
        /\ errors' = [errors EXCEPT ![EPKI_SIGN_ERROR] = @ + 1]
        /\ dont_restart'

\* C25: when the host's sign callback reports an error, sign() returns false
\* and leaves the signature as it was, queues an EpkiInvalidAlias event (only
\* if the alias was flagged invalid) before exactly one EpkiError event,
\* counts EPKI_SIGN_ERROR once and marks the session as not to be restarted.
C25_SignError == [][SignFailedStep]_vars

\* a signature was made, and the next request failed with an invalid alias
C25_Witness ==
    /\ n_sign = 2
    /\ sign_ret = "false"
    /\ sign_req.invalidAlias
    /\ sign_req.sig # ""
    /\ sig # ""
    /\ errors[EPKI_SIGN_ERROR] = 1

\* C26: once an exception has left the constructor of the TLS session, nothing
\* the constructor allocated is still allocated.
C26_ReleasedOnFailure == ctor_pc = "failed" => heap = {}

\* the leaf checks that are configured and fail on the certificate
FailingLeafChecks(k) ==
    {c \in {"ns-cert-type", "key usage", "extended key usage", "tls-remote", "verify-x509-name"} :
        \/ c = "ns-cert-type" /\ k.ns_cert_type_defined /\ ~k.verify_ns_cert_type
        \/ c = "key usage" /\ k.x509_cert_ku_defined /\ ~k.verify_x509_cert_ku
        \/ c = "extended key usage" /\ k.x509_cert_eku_defined /\ ~k.verify_x509_cert_eku
        \/ c = "tls-remote" /\ ~k.tls_remote_empty /\ ~k.tls_remote_test
        \/ c = "verify-x509-name" /\ k.verify_x509_mode # "VERIFY_X509_NONE"
                                   /\ ~k.verify_x509_verify}

\* C27: when the client verification callback has returned, every flag that
\* was set on entry is still set, and the flags word differs from the one on
\* entry exactly by BADCERT_OTHER being set if the certificate is the leaf
\* and some configured leaf check fails, whatever the later checks find.
C27_VerifyFlags ==
    vfy_ret = "0" =>
        /\ vfy_arg.flags \subseteq vfy_flags
        /\ vfy_flags = vfy_arg.flags \cup
              (IF vfy_arg.depth = 0 /\ FailingLeafChecks(vfy_arg.checks) # {}
                  THEN {"BADCERT_OTHER"} ELSE {})

\* a leaf whose key usage check fails and whose later verify-x509-name check
\* passes: BADCERT_OTHER has been added to a flags word that had another flag
C27_Witness ==
    /\ vfy_ret = "0"
    /\ vfy_arg.depth = 0
    /\ FailingLeafChecks(vfy_arg.checks) = {"key usage"}
    /\ vfy_arg.checks.verify_x509_mode = "VERIFY_X509_SUBJECT_DN"
    /\ vfy_arg.checks.verify_x509_verify
    /\ vfy_arg.flags = {"BADCERT_EXPIRED"}
    /\ vfy_flags = {"BADCERT_EXPIRED", "BADCERT_OTHER"}

\* the http_done calls in trace tr since the last start_request
DoneSinceStart(tr) ==
    LET starts == {i \in 1..Len(tr) : tr[i].cb = "start_request"}
        last == IF starts = {} THEN 0 ELSE CHOOSE i \in starts : \A j \in starts : j <= i
    IN  Cardinality({i \in (last + 1)..Len(tr) : tr[i].cb = "http_done"})

\* C28: between one start_request() and the next, http_done is called at most
\* once, whatever the handlers do and whether or not host callbacks throw.
C28_DoneAtMostOnce == DoneSinceStart(http.trace) <= 1

\* the host callbacks a step has added to the trace
NewCalls == SubSeq(http'.trace, Len(http.trace) + 1, Len(http'.trace))

C30_StopIsFinal ==
    [][/\ http'.halt => ~http'.ready /\ ~http'.alive
       /\ http.halt => http' = http]_vars

\* a request was on its way when stop() ran, and a buffer read by the link
\* reached tcp_read_handler afterwards
C30_Witness ==
    /\ http.halt /\ ~http.ready /\ ~http.alive
    /\ http.link = "stopped"
    /\ http_op = [name |-> "tcp_read_handler", halted |-> TRUE, err |-> ""]

RECURSIVE Payload(_)
\* the payload bytes of the chunks ks, in order
Payload(ks) == IF ks = <<>> THEN <<>> ELSE Head(ks).payload \o Payload(Tail(ks))

\* C31: however the bytes fed so far were split into buffers, the content
\* delivered, the decoder's state and size, the number of bytes consumed and
\* the value returned are those of one receive() of all these bytes in a
\* single buffer on a new decoder.
C31_SplitIndependent ==
    ch_ret # "none" =>
        LET whole == receive(ChunkedConstructed, ch_fed)
        IN  /\ ch_content = whole.out
            /\ chunked = whole.d
            /\ ch_consumed = Len(ch_fed) - Len(whole.left)
            /\ ch_ret = (IF whole.d.state = "done" THEN "true" ELSE "false")

\* a buffer has ended inside the payload of a chunk: the first payload byte
\* has been delivered, the decoder waits for the other one
C31_Witness ==
    /\ ch_body \in Bodies /\ Len(ch_body.chunks) = 1
    /\ ch_ret = "false"
    /\ chunked = [state |-> "chunk", size |-> 1]
    /\ ch_content = <<"0">>
    /\ ch_in # <<>>

\* C32: of a well-formed chunked body, what has been delivered is payload of
\* the chunks, in order, and all of it once the body has been consumed; and
\* receive() returns true exactly when the whole body, trailer fields and
\* final CRLF included, has been consumed.
C32_PayloadAndDone ==
    (ch_body \in Bodies /\ ch_ret # "none") =>
        /\ Len(ch_content) <= Len(Payload(ch_body.chunks))
        /\ ch_content = SubSeq(Payload(ch_body.chunks), 1, Len(ch_content))
        /\ ch_consumed = Len(Encode(ch_body)) => ch_content = Payload(ch_body.chunks)
        /\ ch_ret = "true" <=> ch_consumed = Len(Encode(ch_body))

====
